---- MODULE Spec2Model ----
(***************************************************************************)
(* Model of the trading engine of system_trading                           *)
(* (system_trading/engine/trading_engine.py) and of the Portfolio Manager  *)
(* it drives.                                                              *)
(*                                                                         *)
(* Units.  Decimal amounts are modelled as integers: sizes and trade       *)
(* amounts in units of 0.0001 of the base asset, prices and balances in    *)
(* whole quote units, strength and confidence (floats in [0,1]) in         *)
(* hundredths.  The values drawn below make every quotient exact.          *)
(*                                                                         *)
(* Python semantics.  The module trading_engine.py binds the names listed  *)
(* in ModuleGlobals and no others: it imports neither Decimal nor Trade.   *)
(* A function body that evaluates an unbound global raises NameError at    *)
(* that point; the model follows the bodies as written.  (The annotation   *)
(* "trade: Trade" of line 426 is evaluated only lazily; the model is of    *)
(* the interpreter that does so, the only one on which the class exists.)  *)
(***************************************************************************)
EXTENDS Integers, Sequences, FiniteSets, TLC

VARIABLES
    positions,      \* PortfolioManager.positions: (exchange, symbol) -> Position
    balances,       \* PortfolioManager.balances: (exchange, asset) -> free amount
    trade_log,      \* the exchange's trade history, as get_trades returns it
    recon,          \* progress of one _update_positions call
    folded,         \* ids of the trades handed to the fold in completed cycles
    hist,           \* the last portfolio operation and what it saw (history variable)
    is_running,     \* TradingEngine.is_running
    active_orders,  \* TradingEngine.active_orders: order id -> Order
    tasks,          \* one entry per start() call: where its coroutine stands
    stop_pc,        \* where a stop() call stands, and the dict size its iterator saw
    last_exec,      \* the last step of _execute_signal and what it saw (history variable)
    flt,            \* _filter_signals applied to drawn inputs: signals, orders, result
    active_symbols, \* TradingEngine.active_symbols: per exchange, its symbols in order
    retry,          \* one call through the retry_async wrapper: its locals and history
    fn              \* a call of a strategy, risk or set-up function: its inputs and result

fold_vars == <<trade_log, recon, folded, hist>>
engine_vars == <<is_running, active_orders, tasks, stop_pc, last_exec>>
vars == <<positions, balances, trade_log, recon, folded, hist,
          is_running, active_orders, tasks, stop_pc, last_exec, flt, active_symbols, retry, fn>>

----------------------------------------------------------------------------
\* Value domains

BUY == "buy"
SELL == "sell"
Sides == {BUY, SELL}
Exchanges == {"binance"}
Symbols == {"BTC/USDT", "ETH/USDT"}

\* The most trades the exchange's history holds in the model.
MaxTrades == 2

TradeAmounts == {1000, 2000}
TradePrices == {52000}
EntryPrices == {50000}
TickerPrices == {40000, 50000}
PositionSizes == {0, 1000, 2000}

PosKey(exchange, symbol) == <<exchange, symbol>>

NoPosition == [symbol |-> "", exchange |-> "", side |-> "", size |-> 0,
               entry_price |-> 0, market_price |-> 0, unrealized_pnl |-> 0]

Position(symbol, side, size, entry_price, market_price, unrealized_pnl, exchange) ==
    [symbol |-> symbol, exchange |-> exchange, side |-> side, size |-> size,
     entry_price |-> entry_price, market_price |-> market_price,
     unrealized_pnl |-> unrealized_pnl]

NoTrade == [id |-> 0, symbol |-> "", exchange |-> "", side |-> "", amount |-> 0, price |-> 0]

Abs(x) == IF x < 0 THEN -x ELSE x

----------------------------------------------------------------------------
\* Portfolio Manager (system_trading/data/portfolio_manager.py)

\* get_position(symbol, exchange) does not raise: a missing key is "not found".
has_position(pos, symbol, exchange) == PosKey(exchange, symbol) \in DOMAIN pos

get_position(pos, symbol, exchange) ==
    IF has_position(pos, symbol, exchange) THEN pos[PosKey(exchange, symbol)] ELSE NoPosition

\* update_position(position): upsert by key; a position of size 0 removes the key.
update_position(pos, p) ==
    LET key == PosKey(p.exchange, p.symbol) IN
    IF p.size = 0
    THEN [k \in (DOMAIN pos) \ {key} |-> pos[k]]
    ELSE [k \in (DOMAIN pos) \cup {key} |-> IF k = key THEN p ELSE pos[k]]

----------------------------------------------------------------------------
\* trading_engine.py, module scope

\* The module's globals had it also run "from decimal import Decimal".
ModuleGlobals_DecimalImported ==
    {"asyncio", "logging", "datetime", "Any", "Exchange", "Order", "OrderSide",
     "OrderStatus", "OrderType", "Position", "TradingSignal", "PortfolioManager",
     "UnifiedExchangeClient", "BaseStrategy", "logger", "TradingEngine", "Decimal"}

\* The names bound at module scope: the imports of lines 3-19, logger, the class.
ModuleGlobals ==
    {"asyncio", "logging", "datetime", "Any", "Exchange", "Order", "OrderSide",
     "OrderStatus", "OrderType", "Position", "TradingSignal", "PortfolioManager",
     "UnifiedExchangeClient", "BaseStrategy", "logger", "TradingEngine"}

\* The outcome of evaluating an expression: a value, or an exception raised.
Raised(exc) == [raised |-> TRUE, exc |-> exc, value |-> NoPosition]
Value(v) == [raised |-> FALSE, exc |-> "", value |-> v]

\* Evaluating Position(..., unrealized_pnl=Decimal("0"), ...): the keyword
\* arguments are evaluated in order, and the name Decimal is looked up
\* in the module's globals.
PositionWithDecimalZero(symbol, side, size, entry_price, market_price, exchange) ==
    IF "Decimal" \in ModuleGlobals
    THEN Value(Position(symbol, side, size, entry_price, market_price, 0, exchange))
    ELSE Raised("NameError")

\* Lines 429-508: the Position the fold builds from the existing position and the
\* trade.  The quotient of line 441 is a Decimal division (28 significant digits);
\* \div cuts it to whole quote units.
fold_position(pos, trade) ==
    LET existing == get_position(pos, trade.symbol, trade.exchange) IN
    IF has_position(pos, trade.symbol, trade.exchange)
    THEN IF trade.side = existing.side
         THEN LET total_size == existing.size + trade.amount
                  total_value == existing.size * existing.entry_price
                                 + trade.amount * trade.price
                  avg_entry_price == IF total_size > 0
                                     THEN total_value \div total_size
                                     ELSE trade.price
              IN PositionWithDecimalZero(trade.symbol, existing.side, total_size,
                                         avg_entry_price, trade.price, trade.exchange)
         ELSE LET new_size == existing.size - trade.amount IN
              IF new_size <= 0
              THEN IF new_size < 0
                   THEN PositionWithDecimalZero(trade.symbol, trade.side, Abs(new_size),
                                                trade.price, trade.price, trade.exchange)
                   ELSE PositionWithDecimalZero(trade.symbol, existing.side, 0,
                                                existing.entry_price, trade.price,
                                                trade.exchange)
              ELSE PositionWithDecimalZero(trade.symbol, existing.side, new_size,
                                           existing.entry_price, trade.price,
                                           trade.exchange)
    ELSE PositionWithDecimalZero(trade.symbol, trade.side, trade.amount, trade.price,
                                 trade.price, trade.exchange)

\* _process_trade_for_position: any exception is caught and logged (line 510),
\* and update_position is then not reached.
process_trade_for_position(pos, trade) ==
    LET r == fold_position(pos, trade) IN
    IF r.raised THEN pos ELSE update_position(pos, r.value)

\* active_symbols after the add_strategy calls (lines 55-61): per exchange, the
\* symbols in insertion order.  Three setups: both symbols on one exchange, BTC/USDT
\* only, and one symbol on each of two exchanges.
TwoSymbolSetup == <<[exchange |-> "binance", symbols |-> <<"BTC/USDT", "ETH/USDT">>]>>
OneSymbolSetup == <<[exchange |-> "binance", symbols |-> <<"BTC/USDT">>]>>
TwoExchangeSetup == <<[exchange |-> "binance", symbols |-> <<"BTC/USDT">>],
                      [exchange |-> "upbit", symbols |-> <<"ETH/USDT">>]>>

\* What one get_ticker call yields: a ticker with its last price, or an exception.
TickerOutcomes ==
    {[raised |-> TRUE, last |-> 0]} \cup {[raised |-> FALSE, last |-> p] : p \in TickerPrices}

\* A variant of refreshed_position that stores the P&L as the size.
refreshed_position_SizeFromPnl(position, current_price) ==
    LET diff == current_price - position.entry_price
        price_diff == IF position.side = SELL THEN -diff ELSE diff
        unrealized_pnl == price_diff * position.size
    IN Position(position.symbol, position.side, unrealized_pnl, position.entry_price,
                current_price, position.size, position.exchange)

\* Lines 523-542: the position rebuilt from the current ticker.
refreshed_position(position, current_price) ==
    LET diff == current_price - position.entry_price
        price_diff == IF position.side = SELL THEN -diff ELSE diff
        unrealized_pnl == price_diff * position.size
    IN Position(position.symbol, position.side, position.size, position.entry_price,
                current_price, unrealized_pnl, position.exchange)

\* A variant of refresh_from that refreshes the first position it finds only.
refresh_from_FirstPositionOnly(pos, symbols, i, exchange, tick) ==
    LET held == {j \in i..Len(symbols) : has_position(pos, symbols[j], exchange)}
        first == CHOOSE j \in held : \A k \in held : j <= k
    IN  IF held = {} \/ tick[symbols[first]].raised THEN pos
        ELSE update_position(pos, refreshed_position(
                 get_position(pos, symbols[first], exchange), tick[symbols[first]].last))

\* _update_position_market_values(exchange): for each symbol of the exchange that has
\* a position, in order, fetch the ticker and store the refreshed position; the first
\* get_ticker that raises ends the loop (line 544), keeping what was stored before it.
RECURSIVE refresh_from(_, _, _, _, _)
refresh_from(pos, symbols, i, exchange, tick) ==
    IF i > Len(symbols) THEN pos
    ELSE LET symbol == symbols[i] IN
         IF ~has_position(pos, symbol, exchange)
         THEN refresh_from(pos, symbols, i + 1, exchange, tick)
         ELSE IF tick[symbol].raised THEN pos
         ELSE refresh_from(
                  update_position(pos, refreshed_position(
                      get_position(pos, symbol, exchange), tick[symbol].last)),
                  symbols, i + 1, exchange, tick)

symbols_of(exchange) ==
    LET hits == {j \in 1..Len(active_symbols) : active_symbols[j].exchange = exchange} IN
    IF hits = {} THEN <<>> ELSE active_symbols[CHOOSE j \in hits : TRUE].symbols

update_position_market_values(pos, exchange, tick) ==
    refresh_from(pos, symbols_of(exchange), 1, exchange, tick)

----------------------------------------------------------------------------
\* The reconciliation cycle (_update_positions) and the Portfolio Manager's
\* update_position, over a growing trade history

\* The symbols the account trades; positions may be held on every symbol.
TradedSymbols == {"BTC/USDT"}

Trades ==
    [id : {0}, symbol : TradedSymbols, exchange : Exchanges, side : Sides,
     amount : TradeAmounts, price : TradePrices]

\* The positions a caller hands to update_position: size 0 asks for removal.
PositionInputs ==
    {Position(s, sd, sz, e, e, 0, x) :
        s \in Symbols, sd \in Sides, sz \in PositionSizes, e \in EntryPrices, x \in Exchanges}

Idle == [phase |-> "idle", exchange |-> "", trades |-> <<>>, i |-> 0]

\* hist: the operation, the key it acted on, the trade folded, whether the key
\* held a position before and which, whether the trade had been folded in an
\* earlier cycle, whether update_position was handed size 0; for a refresh, what
\* get_ticker yielded per symbol and the positions it found.
NoOp == [op |-> "none", key |-> <<>>, trade |-> NoTrade, had |-> FALSE,
         before |-> NoPosition, refold |-> FALSE, zero |-> FALSE,
         tick |-> <<>>, positions |-> <<>>]

\* The starts of the engine the model follows.
MaxStarts == 2

TaskIds == 1..MaxStarts

NoRequestYet == [kind |-> "none", symbol |-> "", exchange |-> "", side |-> "",
                 type |-> "", amount |-> 0]

\* The loop iterations the model follows for one start.
MaxPasses == 2

NoOrder == [id |-> 0, symbol |-> "", exchange |-> "", side |-> "", amount |-> 0,
            status |-> ""]

\* A start() call: where it stands, the iterations begun, the signals still to execute,
\* the create_order call awaited, and the state of the for loop of _update_orders (the
\* order being polled, the ids the iterator has still to yield, the dict size the
\* iterator saw, completed_orders).
NoTask == [pc |-> "none", passes |-> 0, filtered |-> <<>>, req |-> NoRequestYet,
           cur |-> NoOrder, todo |-> <<>>, seen |-> 0, completed |-> <<>>]

NoExec == [op |-> "none", signal |-> [symbol |-> "", side |-> "", strength |-> 0,
                                      confidence |-> 0],
           last |-> 0, had |-> FALSE, position |-> NoPosition, free |-> 0,
           req |-> NoRequestYet, order_id |-> 0, tracked |-> 0,
           completed |-> {}, error |-> "", in_flight |-> {}, attempted |-> {},
           failed |-> {}, market |-> <<>>, out |-> <<>>, generated |-> <<>>,
           raised_for |-> "", reconciled |-> {}]

NoFilter == [signals |-> <<>>, result |-> <<>>, applied |-> FALSE]

\* No strategy or risk function has been called.
NoCall == [op |-> "none", self |-> <<>>, arg |-> <<>>, result |-> <<>>]

\* No call through the retry wrapper is under way.
NoError == [kind |-> "", call |-> 0]
NoRetry == [pc |-> "idle", max_attempts |-> 0, delay |-> 0, max_delay |-> 0, jitter |-> FALSE,
            attempt |-> 0, current_delay |-> 0, calls |-> 0, outcomes |-> <<>>,
            slept |-> <<>>, result |-> 0, error |-> NoError, records |-> <<>>]

NotStopping == [pc |-> "idle", seen |-> 0, todo |-> <<>>, cur |-> 0, in_flight |-> {},
                attempted |-> {}, failed |-> {}]

\* The state after PortfolioManager() and TradingEngine(), lines 27-36.
PortfolioNew == positions = <<>> /\ balances = <<>>
FoldIdle == trade_log = <<>> /\ recon = Idle /\ folded = {} /\ hist = NoOp
EngineNew ==
    /\ is_running = FALSE
    /\ active_orders = <<>>
    /\ tasks = [t \in TaskIds |-> NoTask]
    /\ stop_pc = NotStopping
    /\ last_exec = NoExec

InitFold ==
    /\ PortfolioNew
    /\ FoldIdle
    /\ EngineNew
    /\ flt = NoFilter
    /\ fn = NoCall
    /\ retry = NoRetry
    /\ active_symbols = TwoSymbolSetup

\* The exchange executes a trade: it joins the history get_trades returns.
ExchangeFill ==
    /\ recon.phase = "idle"
    /\ Len(trade_log) < MaxTrades
    /\ \E t \in Trades :
          trade_log' = Append(trade_log, [t EXCEPT !.id = Len(trade_log) + 1])
    /\ hist' = NoOp
    /\ UNCHANGED <<positions, balances, recon, folded, engine_vars, flt, retry, active_symbols, fn>>

\* portfolio_manager.update_position(position), called on the engine's manager.
UpdatePosition ==
    /\ recon.phase = "idle"
    /\ \E p \in PositionInputs :
          /\ positions' = update_position(positions, p)
          /\ hist' = [NoOp EXCEPT !.op = "update_position",
                                   !.key = PosKey(p.exchange, p.symbol),
                                   !.had = has_position(positions, p.symbol, p.exchange),
                                   !.zero = (p.size = 0)]
    /\ UNCHANGED <<balances, trade_log, recon, folded, engine_vars, flt, retry, active_symbols, fn>>

\* _update_positions, lines 408-411: get_trades(exchange, limit=100) returns the
\* history, or raises and the exchange is skipped (line 420).
FetchTrades ==
    /\ recon.phase = "idle"
    /\ \E k \in 1..Len(active_symbols) :
          \/ recon' = [phase |-> "fold", exchange |-> active_symbols[k].exchange,
                       trades |-> trade_log, i |-> 1]
          \/ recon' = Idle
    /\ hist' = NoOp
    /\ UNCHANGED <<positions, balances, trade_log, folded, engine_vars, flt, retry, active_symbols, fn>>

\* Lines 414-415: the next trade of the fetched history is folded.
FoldTrade ==
    /\ recon.phase = "fold"
    /\ recon.i <= Len(recon.trades)
    /\ LET trade == recon.trades[recon.i] IN
          /\ positions' = process_trade_for_position(positions, trade)
          /\ hist' = [NoOp EXCEPT !.op = "fold",
                                   !.key = PosKey(trade.exchange, trade.symbol),
                                   !.trade = trade,
                                   !.had = has_position(positions, trade.symbol, trade.exchange),
                                   !.before = get_position(positions, trade.symbol, trade.exchange),
                                   !.refold = (trade.id \in folded)]
    /\ recon' = [recon EXCEPT !.i = @ + 1]
    /\ UNCHANGED <<balances, trade_log, folded, engine_vars, flt, retry, active_symbols, fn>>

\* Lines 417-418: after the folds the market values are refreshed; the cycle ends.
RefreshMarketValues ==
    /\ recon.phase = "fold"
    /\ recon.i > Len(recon.trades)
    /\ \E tick \in [Symbols -> TickerOutcomes] :
          /\ positions' = update_position_market_values(positions, recon.exchange, tick)
          /\ hist' = [NoOp EXCEPT !.op = "refresh", !.tick = tick, !.positions = positions]
    /\ folded' = folded \cup {recon.trades[j].id : j \in 1..Len(recon.trades)}
    /\ recon' = Idle
    /\ UNCHANGED <<balances, trade_log, engine_vars, flt, retry, active_symbols, fn>>

NextFold ==
    \/ ExchangeFill
    \/ UpdatePosition
    \/ FetchTrades
    \/ FoldTrade
    \/ RefreshMarketValues

SpecFold == InitFold /\ [][NextFold]_vars

----------------------------------------------------------------------------
\* Signals, orders and the filter step

\* TradingEngine.max_concurrent_orders
max_concurrent_orders == 5

\* PortfolioManager.risk_percentage, in hundredths (0.02)
RiskPercentage == 2

\* The confidence an opposing signal must exceed to close a position, in hundredths (0.7)
CloseConfidence == 70

MARKET == "market"

\* A TradingSignal, as far as the engine reads it: strategy and metadata are not read.
Signal(symbol, side, strength, confidence) ==
    [symbol |-> symbol, side |-> side, strength |-> strength, confidence |-> confidence]

NoSignal == Signal("", "", 0, 0)

Order(id, symbol, exchange, side, amount, status) ==
    [id |-> id, symbol |-> symbol, exchange |-> exchange, side |-> side,
     amount |-> amount, status |-> status]

Max(a, b) == IF a > b THEN a ELSE b
Min(a, b) == IF a < b THEN a ELSE b

\* The key of line 235.
SortKey(s) == s.confidence * s.strength

\* list.sort(key=..., reverse=True): descending by key, and stable (signals of
\* equal key keep their order).  The element at place r of the result is the one
\* with r - 1 elements before it: those of greater key, and those of equal key that
\* stood before it.
sort_reverse(seq) ==
    LET before(j, i) == \/ SortKey(seq[j]) > SortKey(seq[i])
                        \/ SortKey(seq[j]) = SortKey(seq[i]) /\ j < i
        rank(i) == Cardinality({j \in 1..Len(seq) : before(j, i)}) + 1
    IN [r \in 1..Len(seq) |-> seq[CHOOSE i \in 1..Len(seq) : rank(i) = r]]

\* list.sort(key=...): ascending by key, and stable.
sort_forward(seq) ==
    LET before(j, i) == \/ SortKey(seq[j]) < SortKey(seq[i])
                        \/ SortKey(seq[j]) = SortKey(seq[i]) /\ j < i
        rank(i) == Cardinality({j \in 1..Len(seq) : before(j, i)}) + 1
    IN [r \in 1..Len(seq) |-> seq[CHOOSE i \in 1..Len(seq) : rank(i) = r]]

symbols_with_orders(orders) == {orders[id].symbol : id \in DOMAIN orders}

\* A variant of filter_signals that sorts with reverse=False.
filter_signals_SortAscending(signals, orders) ==
    LET filtered == SelectSeq(signals, LAMBDA s : s.symbol \notin symbols_with_orders(orders))
        srt == sort_forward(filtered)
        remaining_slots == Max(0, max_concurrent_orders - Cardinality(DOMAIN orders))
    IN SubSeq(srt, 1, Min(remaining_slots, Len(srt)))

\* _filter_signals
filter_signals(signals, orders) ==
    LET filtered == SelectSeq(signals, LAMBDA s : s.symbol \notin symbols_with_orders(orders))
        srt == sort_reverse(filtered)
        remaining_slots == Max(0, max_concurrent_orders - Cardinality(DOMAIN orders))
    IN SubSeq(srt, 1, Min(remaining_slots, Len(srt)))

----------------------------------------------------------------------------
\* Executing a signal

Range(seq) == {seq[j] : j \in 1..Len(seq)}

\* A variant of resolve_exchange that takes the exchange inserted last.
resolve_exchange_LastListing(symbol) ==
    LET hits == {j \in 1..Len(active_symbols) : symbol \in Range(active_symbols[j].symbols)}
        last == CHOOSE j \in hits : \A k \in hits : j >= k
    IN active_symbols[last].exchange

\* Lines 244-248: the first exchange, in insertion order, that lists the symbol.
resolve_exchange(symbol) ==
    LET hits == {j \in 1..Len(active_symbols) : symbol \in Range(active_symbols[j].symbols)}
        first == CHOOSE j \in hits : \A k \in hits : j <= k
    IN active_symbols[first].exchange

\* The quote asset of BASE/QUOTE.
quote_asset(symbol) == "USDT"

BalKey(exchange, asset) == <<exchange, asset>>

\* calculate_position_size(symbol, exchange, current_price, signal_strength), with
\* the default risk_percentage: free * risk * strength / price, and 0 when there is
\* no balance record for the quote asset or the price is 0.
calculate_position_size(bal, symbol, exchange, current_price, signal_strength) ==
    LET key == BalKey(exchange, quote_asset(symbol)) IN
    IF key \notin DOMAIN bal \/ current_price <= 0 THEN 0
    ELSE (bal[key] * RiskPercentage * signal_strength) \div current_price

\* A create_order call: its arguments.
Request(kind, symbol, exchange, side, type, amount) ==
    [kind |-> kind, symbol |-> symbol, exchange |-> exchange, side |-> side,
     type |-> type, amount |-> amount]

NoRequest == NoRequestYet

opposite(side) == IF side = BUY THEN SELL ELSE BUY

\* _close_position, lines 326-337
close_position(position, exchange) ==
    Request("close", position.symbol, exchange, opposite(position.side), MARKET,
            Abs(position.size))

\* _open_new_position, lines 301-307
open_new_position(signal, position_size, exchange) ==
    Request("open", signal.symbol, exchange, signal.side, MARKET, position_size)

\* A variant of handle_existing_position with >= for the > of line 289.
handle_existing_position_AtThreshold(signal, position, exchange) ==
    IF (position.side = BUY /\ signal.side = SELL)
       \/ (position.side = SELL /\ signal.side = BUY)
    THEN IF signal.confidence >= CloseConfidence
         THEN close_position(position, exchange)
         ELSE NoRequest
    ELSE NoRequest

\* _handle_existing_position
handle_existing_position(signal, position, exchange) ==
    IF (position.side = BUY /\ signal.side = SELL)
       \/ (position.side = SELL /\ signal.side = BUY)
    THEN IF signal.confidence > CloseConfidence
         THEN close_position(position, exchange)
         ELSE NoRequest
    ELSE NoRequest

\* A variant of execute_signal that leaves signal_strength at its default, 1.0.
execute_signal_DefaultStrength(pos, bal, signal, ticker) ==
    IF ticker.raised THEN NoRequest
    ELSE LET exchange == resolve_exchange(signal.symbol)
             position_size == calculate_position_size(bal, signal.symbol, exchange,
                                                      ticker.last, 100)
         IN IF position_size <= 0 THEN NoRequest
            ELSE IF has_position(pos, signal.symbol, exchange)
                 THEN handle_existing_position(
                          signal, get_position(pos, signal.symbol, exchange), exchange)
                 ELSE open_new_position(signal, position_size, exchange)

\* A variant of execute_signal that skips only a negative size (< for the <= of line 262).
execute_signal_SkipOnlyNegative(pos, bal, signal, ticker) ==
    IF ticker.raised THEN NoRequest
    ELSE LET exchange == resolve_exchange(signal.symbol)
             position_size == calculate_position_size(bal, signal.symbol, exchange,
                                                      ticker.last, signal.strength)
         IN IF position_size < 0 THEN NoRequest
            ELSE IF has_position(pos, signal.symbol, exchange)
                 THEN handle_existing_position(
                          signal, get_position(pos, signal.symbol, exchange), exchange)
                 ELSE open_new_position(signal, position_size, exchange)

\* _execute_signal from the return of get_ticker (line 251) to the create_order call
\* it makes, if any.  A get_ticker that raises leaves _execute_signal (line 225).
execute_signal(pos, bal, signal, ticker) ==
    IF ticker.raised THEN NoRequest
    ELSE LET exchange == resolve_exchange(signal.symbol)
             position_size == calculate_position_size(bal, signal.symbol, exchange,
                                                      ticker.last, signal.strength)
         IN IF position_size <= 0 THEN NoRequest
            ELSE IF has_position(pos, signal.symbol, exchange)
                 THEN handle_existing_position(
                          signal, get_position(pos, signal.symbol, exchange), exchange)
                 ELSE open_new_position(signal, position_size, exchange)

\* The id the exchange gives a new order: one no tracked order has.
fresh_order_id(orders) ==
    CHOOSE id \in 1..(Cardinality(DOMAIN orders) + 1) : id \notin DOMAIN orders

\* Lines 310 and 340: the returned order is tracked under its id.
track_order(orders, order) ==
    [id \in (DOMAIN orders) \cup {order.id} |-> IF id = order.id THEN order ELSE orders[id]]

----------------------------------------------------------------------------
\* The trading loop: one coroutine per start() call

\* The registered strategies, in insertion order of TradingEngine.strategies.
strategies == <<"enhanced_ma_binance", "enhanced_ma_upbit", "rsi_binance">>

\* The (exchange, symbol) pairs in the order _generate_signals visits them.
RECURSIVE pairs_from(_)
pairs_from(j) ==
    IF j > Len(active_symbols) THEN <<>>
    ELSE [i \in 1..Len(active_symbols[j].symbols) |->
             [exchange |-> active_symbols[j].exchange, symbol |-> active_symbols[j].symbols[i]]]
         \o pairs_from(j + 1)

pairs == pairs_from(1)

\* What strategy.generate_signal yields for one pair: None, an exception, or a
\* signal of one of these shapes.
SignalShapes == {[side |-> BUY, strength |-> 80, confidence |-> 75]}
NoShape == [side |-> "", strength |-> 0, confidence |-> 0]
RaisedShape == [side |-> "raised", strength |-> 0, confidence |-> 0]
StrategyOutcomes == SignalShapes \cup {NoShape, RaisedShape}

\* What the market-data step of lines 160-177 yields for one pair: candles, an empty
\* frame, or an exception of get_market_data.
MarketOutcomes == {"data", "empty", "raised"}

\* Lines 157-185: slot (p, q) is strategy q run on pair p; the signals are
\* collected pair by pair, strategy by strategy, each with the pair's symbol.
Slots == 1..(Len(pairs) * Len(strategies))
slot_pair_index(k) == ((k - 1) \div Len(strategies)) + 1
slot_pair(k) == pairs[slot_pair_index(k)]

\* A variant of generate_signals in which an exception of get_market_data is not
\* caught pair by pair: it ends the collection at the first pair that raised.
generate_signals_FetchErrorEndsCollection(market, out) ==
    LET raised == {p \in 1..Len(pairs) : market[p] = "raised"}
        first == IF raised = {} THEN Len(pairs) + 1
                 ELSE CHOOSE p \in raised : \A q \in raised : p <= q
        all == [k \in Slots |->
                   IF /\ slot_pair_index(k) < first
                      /\ market[slot_pair_index(k)] = "data"
                      /\ out[k] \in SignalShapes
                   THEN Signal(slot_pair(k).symbol, out[k].side, out[k].strength,
                               out[k].confidence)
                   ELSE Signal(slot_pair(k).symbol, "", 0, 0)]
    IN SelectSeq(all, LAMBDA sg : sg.side # "")

\* _generate_signals, lines 153-210: a pair whose market data raised (except of
\* line 201) or came back empty (line 176) yields nothing; for the others each
\* strategy that returns a signal adds it, one that returns None or raises (except
\* of line 193) adds nothing.
generate_signals(market, out) ==
    LET all == [k \in Slots |->
                   IF market[slot_pair_index(k)] = "data" /\ out[k] \in SignalShapes
                   THEN Signal(slot_pair(k).symbol, out[k].side, out[k].strength,
                               out[k].confidence)
                   ELSE Signal(slot_pair(k).symbol, "", 0, 0)]
    IN SelectSeq(all, LAMBDA sg : sg.side # "")

\* Statuses _map_order_status yields; PENDING is read by the engine as OPEN is.
CreateStatuses == {"open"}
PollStatuses == {"open", "closed"}

\* What get_ticker yields inside the loop: it raises, or it returns this last price.
LoopTickers == {[raised |-> TRUE, last |-> 0], [raised |-> FALSE, last |-> 50000]}

\* The free balance fetch_balance reports for the quote asset.
BalanceValues == {10000}

RECURSIVE fold_all(_, _, _)
fold_all(pos, trades, i) ==
    IF i > Len(trades) THEN pos
    ELSE fold_all(process_trade_for_position(pos, trades[i]), trades, i + 1)

\* _update_positions: per exchange, get_trades; a raise skips the exchange (line
\* 420); else every trade is folded and the market values are refreshed.
RECURSIVE update_positions_from(_, _, _, _, _)
update_positions_from(pos, j, trades, fetched, tick) ==
    IF j > Len(active_symbols) THEN pos
    ELSE LET exchange == active_symbols[j].exchange
             mine == SelectSeq(trades, LAMBDA t : t.exchange = exchange)
         IN update_positions_from(
                IF fetched[exchange]
                THEN update_position_market_values(fold_all(pos, mine, 1), exchange, tick)
                ELSE pos,
                j + 1, trades, fetched, tick)

update_positions(pos, trades, fetched, tick) ==
    update_positions_from(pos, 1, trades, fetched, tick)

\* update_balance(balance) for the balances one get_balance call returned.
update_balances(bal, exchange, free) ==
    LET key == BalKey(exchange, "USDT") IN
    [k \in (DOMAIN bal) \cup {key} |-> IF k = key THEN free ELSE bal[k]]

ExchangeSeq == [j \in 1..Len(active_symbols) |-> active_symbols[j].exchange]
active_exchanges == {ExchangeSeq[j] : j \in 1..Len(ExchangeSeq)}

\* The balances after get_balance was called for the exchanges 1..n in order and
\* each call returned got[exchange] (0: the call raised and was skipped).
RECURSIVE balances_after(_, _, _)
balances_after(bal, n, got) ==
    IF n = 0 THEN bal
    ELSE LET before == balances_after(bal, n - 1, got)
             exchange == ExchangeSeq[n]
         IN IF got[exchange] = 0 THEN before
            ELSE update_balances(before, exchange, got[exchange])

SetTask(t, task) == tasks' = [tasks EXCEPT ![t] = task]

\* start(), lines 83-88: a running engine returns at once.
Start(t) ==
    /\ tasks[t].pc = "none"
    /\ \A u \in TaskIds : u < t => tasks[u].pc # "none"
    /\ IF is_running
       THEN /\ SetTask(t, [NoTask EXCEPT !.pc = "done"])
            /\ UNCHANGED is_running
       ELSE /\ is_running' = TRUE
            /\ SetTask(t, [NoTask EXCEPT !.pc = "init"])
    /\ last_exec' = NoExec
    /\ UNCHANGED <<positions, balances, fold_vars, active_orders, stop_pc, flt, retry, active_symbols, fn>>

\* _initialize_portfolio: a get_balance that raises is skipped per exchange (line
\* 122); then _update_positions.
InitializePortfolio(t) ==
    /\ tasks[t].pc = "init"
    /\ \E got \in [active_exchanges -> BalanceValues \cup {0}] :
          balances' = balances_after(balances, Len(ExchangeSeq), got)
    /\ \E fetched \in [active_exchanges -> BOOLEAN] : \E tick \in [Symbols -> LoopTickers] :
          positions' = update_positions(positions, trade_log, fetched, tick)
    /\ SetTask(t, [tasks[t] EXCEPT !.pc = "loop"])
    /\ last_exec' = NoExec
    /\ UNCHANGED <<fold_vars, is_running, active_orders, stop_pc, flt, retry, active_symbols, fn>>

\* Line 132: the flag is read at the top of each iteration; a cleared flag ends
\* the loop and start() returns.
LoopCheck(t) ==
    /\ tasks[t].pc = "loop"
    /\ is_running => tasks[t].passes < MaxPasses
    /\ SetTask(t, IF is_running
                  THEN [tasks[t] EXCEPT !.pc = "generate", !.passes = @ + 1]
                  ELSE [tasks[t] EXCEPT !.pc = "done"])
    /\ last_exec' = NoExec
    /\ UNCHANGED <<positions, balances, fold_vars, is_running, active_orders, stop_pc, flt, retry,
                   active_symbols, fn>>

\* Where _process_signals stands once the signal at the head is done with.
NextSignal(task) ==
    LET rest == Tail(task.filtered) IN
    [task EXCEPT !.filtered = rest, !.req = NoRequest,
                 !.pc = IF rest = <<>> THEN "orders" ELSE "ticker"]

\* _generate_signals returns and _process_signals filters (lines 135-218): no
\* signal, or none kept, goes on to _update_orders; else the first get_ticker is awaited.
GenerateAndFilter(t) ==
    /\ tasks[t].pc = "generate"
    /\ \E market \in [1..Len(pairs) -> MarketOutcomes], out \in [Slots -> StrategyOutcomes] :
          LET kept == filter_signals(generate_signals(market, out), active_orders) IN
          SetTask(t, [tasks[t] EXCEPT !.filtered = kept,
                                      !.pc = IF kept = <<>> THEN "orders" ELSE "ticker"])
    /\ last_exec' = NoExec
    /\ UNCHANGED <<positions, balances, fold_vars, is_running, active_orders, stop_pc, flt, retry,
                   active_symbols, fn>>

FreeBalance(bal, symbol) ==
    LET key == BalKey(resolve_exchange(symbol), quote_asset(symbol)) IN
    IF key \in DOMAIN bal THEN bal[key] ELSE 0

\* _execute_signal for the signal at the head: get_ticker returns or raises, and the
\* signal is skipped, or create_order is called and awaited.
ExecuteSignal(t) ==
    /\ tasks[t].pc = "ticker"
    /\ LET signal == Head(tasks[t].filtered) IN
       \E ticker \in LoopTickers :
          LET req == execute_signal(positions, balances, signal, ticker)
              exchange == resolve_exchange(signal.symbol)
          IN /\ SetTask(t, IF req = NoRequest THEN NextSignal(tasks[t])
                           ELSE [tasks[t] EXCEPT !.pc = "create", !.req = req])
             /\ last_exec' = [NoExec EXCEPT
                    !.op = IF ticker.raised THEN "ticker_failed" ELSE "execute",
                    !.signal = signal, !.last = ticker.last,
                    !.had = has_position(positions, signal.symbol, exchange),
                    !.position = get_position(positions, signal.symbol, exchange),
                    !.free = FreeBalance(balances, signal.symbol),
                    !.req = req,
                    !.tracked = Cardinality(DOMAIN active_orders)]
    /\ UNCHANGED <<positions, balances, fold_vars, is_running, active_orders, stop_pc, flt, retry,
                   active_symbols, fn>>

\* A variant of CreateOrderReturns in which an exception of create_order is caught
\* neither at line 319 or 344 nor at line 225: it ends _process_signals, and the
\* signals that remained are dropped.
CreateOrderReturns_FailureEndsPass(t) ==
    /\ tasks[t].pc = "create"
    /\ LET req == tasks[t].req
           id == fresh_order_id(active_orders)
       IN \/ \E status \in CreateStatuses :
                /\ active_orders' = track_order(active_orders,
                       Order(id, req.symbol, req.exchange, req.side, req.amount, status))
                /\ last_exec' = [NoExec EXCEPT !.op = "create",
                       !.signal = Head(tasks[t].filtered), !.req = req, !.order_id = id,
                       !.tracked = Cardinality(DOMAIN active_orders)]
                /\ SetTask(t, NextSignal(tasks[t]))
          \/ /\ active_orders' = active_orders
             /\ last_exec' = [NoExec EXCEPT !.op = "create_failed",
                    !.signal = Head(tasks[t].filtered), !.req = req,
                    !.tracked = Cardinality(DOMAIN active_orders)]
             /\ SetTask(t, [tasks[t] EXCEPT !.filtered = <<>>, !.req = NoRequest,
                                            !.pc = "orders"])
    /\ UNCHANGED <<positions, balances, fold_vars, is_running, stop_pc, flt, retry, active_symbols, fn>>

\* create_order returns an order, which is tracked (lines 310, 340), or raises, which
\* is logged (lines 319, 344); then the next signal.
CreateOrderReturns(t) ==
    /\ tasks[t].pc = "create"
    /\ LET req == tasks[t].req
           id == fresh_order_id(active_orders)
       IN \/ \E status \in CreateStatuses :
                /\ active_orders' = track_order(active_orders,
                       Order(id, req.symbol, req.exchange, req.side, req.amount, status))
                /\ last_exec' = [NoExec EXCEPT !.op = "create",
                       !.signal = Head(tasks[t].filtered), !.req = req, !.order_id = id,
                       !.tracked = Cardinality(DOMAIN active_orders)]
          \/ /\ active_orders' = active_orders
             /\ last_exec' = [NoExec EXCEPT !.op = "create_failed",
                    !.signal = Head(tasks[t].filtered), !.req = req,
                    !.tracked = Cardinality(DOMAIN active_orders)]
    /\ SetTask(t, NextSignal(tasks[t]))
    /\ UNCHANGED <<positions, balances, fold_vars, is_running, stop_pc, flt, retry, active_symbols, fn>>

\* _update_orders run from its first line to its last with nothing else scheduled
\* at its awaits: every tracked order is polled; a get_order that raises leaves
\* the order as it is, a returned order replaces it, and the orders returned CLOSED
\* or CANCELED are removed at the end.  polled[id] is "raised" or the status.
\* (PollBegin and PollOrderReturns below follow the same lines await by await.)
update_orders(orders, polled) ==
    LET done == {id \in DOMAIN orders : polled[id] \in {"closed", "canceled"}} IN
    [id \in (DOMAIN orders) \ done |->
        IF polled[id] = "raised" THEN orders[id] ELSE [orders[id] EXCEPT !.status = polled[id]]]

UpdateOrders(t) ==
    /\ tasks[t].pc = "orders"
    /\ \E polled \in [DOMAIN active_orders -> PollStatuses \cup {"raised"}] :
          active_orders' = update_orders(active_orders, polled)
    /\ SetTask(t, [tasks[t] EXCEPT !.pc = "portfolio"])
    /\ last_exec' = NoExec
    /\ UNCHANGED <<positions, balances, fold_vars, is_running, stop_pc, flt, retry, active_symbols, fn>>

\* _update_portfolio: get_balance per exchange, then _update_positions; a
\* get_balance that raises ends the update (line 401) with the balances stored so far.
UpdatePortfolio(t) ==
    /\ tasks[t].pc = "portfolio"
    /\ \/ \E n \in 0..(Len(ExchangeSeq) - 1) : \E got \in [active_exchanges -> BalanceValues] :
             /\ balances' = balances_after(balances, n, got)
             /\ UNCHANGED positions
             /\ last_exec' = [NoExec EXCEPT !.op = "portfolio", !.error = "get_balance",
                                            !.raised_for = ExchangeSeq[n + 1]]
       \/ \E got \in [active_exchanges -> BalanceValues] :
             /\ balances' = balances_after(balances, Len(ExchangeSeq), got)
             /\ \E fetched \in [active_exchanges -> BOOLEAN] :
                \E tick \in [Symbols -> LoopTickers] :
                   positions' = update_positions(positions, trade_log, fetched, tick)
             /\ last_exec' = [NoExec EXCEPT !.op = "portfolio",
                                            !.reconciled = active_exchanges]
    /\ SetTask(t, [tasks[t] EXCEPT !.pc = "sleep"])
    /\ UNCHANGED <<fold_vars, is_running, active_orders, stop_pc, flt, retry, active_symbols, fn>>

\* asyncio.sleep(update_interval) returns: back to the top of the loop.
Sleep(t) ==
    /\ tasks[t].pc = "sleep"
    /\ SetTask(t, [tasks[t] EXCEPT !.pc = "loop"])
    /\ last_exec' = NoExec
    /\ UNCHANGED <<positions, balances, fold_vars, is_running, active_orders, stop_pc, flt, retry,
                   active_symbols, fn>>

\* stop(), lines 104-107, with the cancellations taken as one step (StopBegin and
\* CancelOrderReturns follow the same lines await by await): the flag is cleared;
\* with nothing tracked _cancel_all_orders returns at once, else it iterates over
\* the dict and awaits cancel_order for each order.
StopCall ==
    /\ stop_pc.pc = "idle"
    /\ is_running' = FALSE
    /\ stop_pc' = IF DOMAIN active_orders = {} THEN NotStopping
                  ELSE [NotStopping EXCEPT !.pc = "cancelling",
                                           !.seen = Cardinality(DOMAIN active_orders)]
    /\ last_exec' = NoExec
    /\ UNCHANGED <<positions, balances, fold_vars, active_orders, tasks, flt, retry, active_symbols, fn>>

\* Line 561: after the cancellations, whatever they yielded, the dict is cleared.  A
\* dict whose size changed while the iteration was suspended makes the iterator
\* raise RuntimeError outside the try of lines 550-559: stop() raises, nothing is cleared.
StopClear ==
    /\ stop_pc.pc = "cancelling"
    /\ active_orders' = IF Cardinality(DOMAIN active_orders) = stop_pc.seen
                        THEN <<>> ELSE active_orders
    /\ stop_pc' = NotStopping
    /\ last_exec' = NoExec
    /\ UNCHANGED <<positions, balances, fold_vars, is_running, tasks, flt, retry, active_symbols, fn>>

Init ==
    /\ PortfolioNew
    /\ FoldIdle
    /\ EngineNew
    /\ flt = NoFilter
    /\ fn = NoCall
    /\ retry = NoRetry
    /\ active_symbols = OneSymbolSetup

Next ==
    \/ \E t \in TaskIds : Start(t)
    \/ \E t \in TaskIds : InitializePortfolio(t)
    \/ \E t \in TaskIds : LoopCheck(t)
    \/ \E t \in TaskIds : GenerateAndFilter(t)
    \/ \E t \in TaskIds : ExecuteSignal(t)
    \/ \E t \in TaskIds : CreateOrderReturns(t)
    \/ \E t \in TaskIds : UpdateOrders(t)
    \/ \E t \in TaskIds : UpdatePortfolio(t)
    \/ \E t \in TaskIds : Sleep(t)
    \/ StopCall
    \/ StopClear

Spec == Init /\ [][Next]_vars

----------------------------------------------------------------------------
\* _execute_signal applied to the signals one filter step kept

\* The longest batch of signals the filter is handed.
MaxBatch == 2

ExecSignals == {Signal(s, sd, 80, c) : s \in Symbols, sd \in Sides, c \in {65, 70, 75}}

ExecBatches == UNION {[1..n -> ExecSignals] : n \in 1..MaxBatch}

\* The portfolios update_position can have built: per symbol no position, a long
\* or a short one.
ExecHoldings == [Symbols -> {"", BUY, SELL}]

RECURSIVE positions_of(_, _)
positions_of(held, todo) ==
    IF todo = {} THEN <<>>
    ELSE LET s == CHOOSE x \in todo : TRUE
             rest == positions_of(held, todo \ {s})
         IN IF held[s] = "" THEN rest
            ELSE update_position(rest, Position(s, held[s], 1000, 50000, 50000, 0, "binance"))

\* The order of an earlier iteration still in flight, or none.
ExecInFlight ==
    {<<>>, track_order(<<>>, Order(1, "BTC/USDT", "binance", BUY, 32, "open"))}

\* The loop of a running engine right after _filter_signals kept at least one
\* signal of the batch.
InitExec ==
    /\ FoldIdle
    /\ flt = NoFilter
    /\ fn = NoCall
    /\ retry = NoRetry
    /\ active_symbols = TwoSymbolSetup
    /\ is_running = TRUE
    /\ stop_pc = NotStopping
    /\ last_exec = NoExec
    /\ \E held \in ExecHoldings : positions = positions_of(held, Symbols)
    /\ \E free \in BalanceValues \cup {0} :
          balances = IF free = 0 THEN <<>> ELSE update_balances(<<>>, "binance", free)
    /\ active_orders \in ExecInFlight
    /\ \E batch \in ExecBatches :
          LET kept == filter_signals(batch, active_orders) IN
          /\ kept # <<>>
          /\ tasks = [t \in TaskIds |->
                         IF t = 1
                         THEN [NoTask EXCEPT !.pc = "ticker", !.passes = 1, !.filtered = kept]
                         ELSE NoTask]

NextExec ==
    \/ \E t \in TaskIds : ExecuteSignal(t)
    \/ \E t \in TaskIds : CreateOrderReturns(t)

SpecExec == InitExec /\ [][NextExec]_vars

----------------------------------------------------------------------------
\* _update_orders await by await, with stop() called meanwhile

\* The ids of a dict in the order its iterator yields them.  (Insertion order in
\* Python; the model takes ascending id, the orders being alike.)
RECURSIVE ids_in_order(_)
ids_in_order(S) ==
    IF S = {} THEN <<>>
    ELSE LET m == CHOOSE x \in S : \A y \in S : x <= y IN <<m>> \o ids_in_order(S \ {m})

\* Lines 375-377: del self.active_orders[order_id] for each completed order; a
\* missing key raises KeyError, which ends the removal there.
RECURSIVE remove_completed(_, _, _)
remove_completed(orders, completed, i) ==
    IF i > Len(completed) THEN [orders |-> orders, error |-> ""]
    ELSE IF completed[i] \notin DOMAIN orders THEN [orders |-> orders, error |-> "KeyError"]
    ELSE remove_completed([id \in (DOMAIN orders) \ {completed[i]} |-> orders[id]],
                          completed, i + 1)

\* A variant of poll_next in which an error that leaves _update_orders is not caught
\* at line 149 and ends the coroutine.
poll_next_ErrorEndsLoop(task, orders) ==
    LET left == SelectSeq(task.todo, LAMBDA id : id \in DOMAIN orders)
        idle == [task EXCEPT !.cur = NoOrder, !.todo = <<>>, !.seen = 0, !.completed = <<>>]
    IN IF Cardinality(DOMAIN orders) # task.seen
       THEN [task |-> [idle EXCEPT !.pc = "done"], orders |-> orders,
             ended |-> TRUE, error |-> "RuntimeError"]
       ELSE IF left = <<>>
       THEN LET r == remove_completed(orders, task.completed, 1) IN
            [task |-> [idle EXCEPT !.pc = IF r.error = "" THEN "portfolio" ELSE "done"],
             orders |-> r.orders, ended |-> TRUE, error |-> r.error]
       ELSE [task |-> [task EXCEPT !.cur = orders[Head(left)], !.todo = Tail(left)],
             orders |-> orders, ended |-> FALSE, error |-> ""]

\* What the for loop of line 351 does when it asks its iterator for the next item:
\* a dict whose size is not the one the iterator saw raises RuntimeError (outside the
\* try of lines 352-374, so it leaves _update_orders and is caught at line 149);
\* else the next tracked id of the snapshot is polled, or, at the end, the
\* completed orders are removed.
poll_next(task, orders) ==
    LET left == SelectSeq(task.todo, LAMBDA id : id \in DOMAIN orders)
        idle == [task EXCEPT !.cur = NoOrder, !.todo = <<>>, !.seen = 0, !.completed = <<>>]
    IN IF Cardinality(DOMAIN orders) # task.seen
       THEN [task |-> [idle EXCEPT !.pc = "sleep"], orders |-> orders,
             ended |-> TRUE, error |-> "RuntimeError"]
       ELSE IF left = <<>>
       THEN LET r == remove_completed(orders, task.completed, 1) IN
            [task |-> [idle EXCEPT !.pc = IF r.error = "" THEN "portfolio" ELSE "sleep"],
             orders |-> r.orders, ended |-> TRUE, error |-> r.error]
       ELSE [task |-> [task EXCEPT !.cur = orders[Head(left)], !.todo = Tail(left)],
             orders |-> orders, ended |-> FALSE, error |-> ""]

\* What _update_orders left behind when it ended (history for the claims).
PollEnded(r, completed) ==
    IF r.ended
    THEN [NoExec EXCEPT !.op = "polled", !.error = r.error,
                        !.completed = {completed[i] : i \in 1..Len(completed)}]
    ELSE NoExec

\* _update_orders begins: the iterator over active_orders.items() is created and the
\* first get_order is awaited; with nothing tracked the step is over at once.
PollBegin(t) ==
    /\ tasks[t].pc = "orders"
    /\ LET begun == [tasks[t] EXCEPT !.pc = "polling",
                                     !.todo = ids_in_order(DOMAIN active_orders),
                                     !.seen = Cardinality(DOMAIN active_orders),
                                     !.completed = <<>>]
           r == poll_next(begun, active_orders)
       IN /\ SetTask(t, r.task)
          /\ last_exec' = PollEnded(r, <<>>)
    /\ UNCHANGED <<positions, balances, fold_vars, is_running, active_orders, stop_pc, flt, retry,
                   active_symbols, fn>>

\* Lines 354-374 for the order being polled: get_order raises (logged, the order
\* is left as it is) or returns the order, which is stored under its id (line 361)
\* and noted as completed when CLOSED or CANCELED; then the loop goes on.
PollOrderReturns(t) ==
    /\ tasks[t].pc = "polling"
    /\ \E out \in PollStatuses \cup {"raised"} :
          LET task == tasks[t]
              id == task.cur.id
              stored == IF out = "raised" THEN active_orders
                        ELSE track_order(active_orders, [task.cur EXCEPT !.status = out])
              completed == IF out \in {"closed", "canceled"}
                           THEN Append(task.completed, id) ELSE task.completed
              r == poll_next([task EXCEPT !.completed = completed], stored)
          IN /\ active_orders' = r.orders
             /\ SetTask(t, r.task)
             /\ last_exec' = PollEnded(r, completed)
    /\ UNCHANGED <<positions, balances, fold_vars, is_running, stop_pc, flt, retry, active_symbols, fn>>

----------------------------------------------------------------------------
\* stop() await by await (lines 101-107 and 547-561)

\* What the for loop of line 549 does when it asks its iterator for the next item:
\* a dict whose size is not the one the iterator saw raises RuntimeError (outside the
\* try of lines 550-559, so it leaves _cancel_all_orders and stop(), and line 561 is
\* not reached); else cancel_order is awaited for the next tracked id, or, at the
\* end, the dict is cleared.
cancel_next(stop, orders) ==
    LET left == SelectSeq(stop.todo, LAMBDA id : id \in DOMAIN orders)
    IN IF Cardinality(DOMAIN orders) # stop.seen
       THEN [stop |-> NotStopping, orders |-> orders, ended |-> TRUE,
             error |-> "RuntimeError"]
       ELSE IF left = <<>>
       THEN [stop |-> NotStopping, orders |-> <<>>, ended |-> TRUE, error |-> ""]
       ELSE [stop |-> [stop EXCEPT !.cur = Head(left), !.todo = Tail(left)],
             orders |-> orders, ended |-> FALSE, error |-> ""]

\* What stop() left behind when it ended (history for the claims).
StopEnded(r, stop) ==
    IF r.ended
    THEN [NoExec EXCEPT !.op = "stopped", !.error = r.error,
                        !.in_flight = stop.in_flight, !.attempted = stop.attempted,
                        !.failed = stop.failed]
    ELSE NoExec

\* stop(), lines 104-107: the flag is cleared, _cancel_all_orders creates the
\* iterator over active_orders.items() and awaits the first cancel_order; with
\* nothing tracked stop() is over at once.
StopBegin ==
    /\ stop_pc.pc = "idle"
    /\ is_running' = FALSE
    /\ LET begun == [NotStopping EXCEPT !.pc = "cancelling",
                                        !.seen = Cardinality(DOMAIN active_orders),
                                        !.todo = ids_in_order(DOMAIN active_orders),
                                        !.in_flight = DOMAIN active_orders]
           r == cancel_next(begun, active_orders)
       IN /\ stop_pc' = r.stop
          /\ active_orders' = r.orders
          /\ last_exec' = StopEnded(r, begun)
    /\ UNCHANGED <<positions, balances, fold_vars, tasks, flt, retry, active_symbols, fn>>

\* Lines 550-559 for the order being cancelled: cancel_order returns (its result
\* is not used) or raises (logged); then the loop goes on.
CancelOrderReturns ==
    /\ stop_pc.pc = "cancelling"
    /\ \E out \in {"canceled", "raised"} :
          LET stop == [stop_pc EXCEPT !.attempted = @ \cup {stop_pc.cur},
                                      !.failed = IF out = "raised"
                                                 THEN @ \cup {stop_pc.cur} ELSE @]
              r == cancel_next(stop, active_orders)
          IN /\ stop_pc' = r.stop
             /\ active_orders' = r.orders
             /\ last_exec' = StopEnded(r, stop)
    /\ UNCHANGED <<positions, balances, fold_vars, is_running, tasks, flt, retry, active_symbols, fn>>

\* The most orders in flight when the poll begins.
MaxPolled == 3

PolledOrders(n) ==
    [id \in 1..n |-> Order(id, "BTC/USDT", "binance", BUY, 32, "open")]

\* A running loop about to poll its orders; stop() has not been called.
InitPoll ==
    /\ FoldIdle
    /\ flt = NoFilter
    /\ fn = NoCall
    /\ retry = NoRetry
    /\ active_symbols = OneSymbolSetup
    /\ is_running = TRUE
    /\ stop_pc = NotStopping
    /\ last_exec = NoExec
    /\ balances = <<>>
    /\ \E held \in ExecHoldings : positions = positions_of(held, Symbols)
    /\ \E n \in 0..MaxPolled : active_orders = PolledOrders(n)
    /\ tasks = [t \in TaskIds |->
                   IF t = 1 THEN [NoTask EXCEPT !.pc = "orders", !.passes = 1] ELSE NoTask]

NextPoll ==
    \/ \E t \in TaskIds : PollBegin(t)
    \/ \E t \in TaskIds : PollOrderReturns(t)
    \/ StopBegin
    \/ CancelOrderReturns

SpecPoll == InitPoll /\ [][NextPoll]_vars

----------------------------------------------------------------------------
\* One loop at a time: start() is awaited to its return before it is called again,
\* stop() is called at any moment, and the order poll is followed await by await

StartAfterReturn(t) ==
    /\ \A u \in TaskIds : tasks[u].pc \in {"none", "done"}
    /\ Start(t)

\* The steps of the coroutine of one start() call.
LoopStep(t) ==
    \/ InitializePortfolio(t)
    \/ LoopCheck(t)
    \/ GenerateAndFilter(t)
    \/ ExecuteSignal(t)
    \/ CreateOrderReturns(t)
    \/ PollBegin(t)
    \/ PollOrderReturns(t)
    \/ UpdatePortfolio(t)
    \/ Sleep(t)

NextLoop ==
    \/ \E t \in TaskIds : StartAfterReturn(t)
    \/ \E t \in TaskIds : LoopStep(t)
    \/ StopCall
    \/ StopClear

\* Every awaited call returns or raises, and the event loop resumes a coroutine
\* that can go on: weak fairness of each coroutine's steps and of stop()'s.
SpecLoop ==
    /\ Init
    /\ [][NextLoop]_vars
    /\ \A t \in TaskIds : WF_vars(LoopStep(t))
    /\ WF_vars(StopClear)

----------------------------------------------------------------------------
\* The filter step applied to drawn inputs

\* The longest list of signals handed to the filter.
MaxSignals == 6

\* The most orders in flight when the filter runs.
MaxInFlight == 6

FilterSignals ==
    {Signal(s, BUY, 80, c) : s \in Symbols, c \in {65, 75}}

SignalLists == UNION {[1..n -> FilterSignals] : n \in 0..MaxSignals}

\* a orders for BTC/USDT and b for ETH/USDT in flight.
InFlight(a, b) ==
    [id \in 1..(a + b) |->
        Order(id, IF id <= a THEN "BTC/USDT" ELSE "ETH/USDT", "binance", BUY, 32, "open")]

InitFilter ==
    /\ PortfolioNew
    /\ FoldIdle
    /\ is_running = FALSE
    /\ tasks = [t \in TaskIds |-> NoTask]
    /\ stop_pc = NotStopping
    /\ last_exec = NoExec
    /\ \E a \in 0..MaxInFlight : \E b \in 0..(MaxInFlight - a) :
          active_orders = InFlight(a, b)
    /\ \E sg \in SignalLists : flt = [signals |-> sg, result |-> <<>>, applied |-> FALSE]
    /\ fn = NoCall
    /\ retry = NoRetry
    /\ active_symbols = TwoSymbolSetup

ApplyFilter ==
    /\ ~flt.applied
    /\ flt' = [flt EXCEPT !.result = filter_signals(flt.signals, active_orders),
                          !.applied = TRUE]
    /\ UNCHANGED <<positions, balances, fold_vars, engine_vars, active_symbols, retry, fn>>

NextFilter == ApplyFilter

SpecFilter == InitFilter /\ [][NextFilter]_vars

----------------------------------------------------------------------------
\* _generate_signals as a function of what its calls yield: two pairs, three strategies

InitGen ==
    /\ PortfolioNew
    /\ FoldIdle
    /\ is_running = FALSE
    /\ active_orders = <<>>
    /\ tasks = [t \in TaskIds |-> NoTask]
    /\ stop_pc = NotStopping
    /\ flt = NoFilter
    /\ fn = NoCall
    /\ retry = NoRetry
    /\ active_symbols = TwoSymbolSetup
    /\ \E market \in [1..2 -> MarketOutcomes], out \in [1..(2 * Len(strategies)) -> StrategyOutcomes] :
          last_exec = [NoExec EXCEPT !.market = market, !.out = out]

ApplyGenerate ==
    /\ last_exec.op = "none"
    /\ last_exec' = [last_exec EXCEPT
                        !.op = "generated",
                        !.generated = generate_signals(last_exec.market, last_exec.out)]
    /\ UNCHANGED <<positions, balances, fold_vars, is_running, active_orders, tasks, stop_pc,
                   flt, retry, active_symbols, fn>>

NextGen == ApplyGenerate

SpecGen == InitGen /\ [][NextGen]_vars

----------------------------------------------------------------------------
\* One portfolio-update cycle of an engine with two exchanges

\* Positions and balances stored by earlier cycles: per exchange no position, a long
\* or a short one on its symbol, last valued at 48000, and no balance record or one
\* with 5000 or 10000 free.
cycle_positions(held) ==
    LET one(pos, j) ==
            IF held[ExchangeSeq[j]] = "" THEN pos
            ELSE update_position(pos, Position(active_symbols[j].symbols[1],
                     held[ExchangeSeq[j]], 1000, 50000, 48000, -200, ExchangeSeq[j]))
    IN one(one(<<>>, 1), 2)

cycle_balances(had) ==
    LET one(bal, j) == IF had[ExchangeSeq[j]] = 0 THEN bal
                       ELSE update_balances(bal, ExchangeSeq[j], had[ExchangeSeq[j]])
    IN one(one(<<>>, 1), 2)

InitCycle ==
    /\ FoldIdle
    /\ flt = NoFilter
    /\ fn = NoCall
    /\ retry = NoRetry
    /\ active_symbols = TwoExchangeSetup
    /\ is_running = TRUE
    /\ active_orders = <<>>
    /\ stop_pc = NotStopping
    /\ last_exec = NoExec
    /\ \E held \in [active_exchanges -> {"", BUY, SELL}] : positions = cycle_positions(held)
    /\ \E had \in [active_exchanges -> {0, 5000, 10000}] : balances = cycle_balances(had)
    /\ tasks = [t \in TaskIds |->
                   IF t = 1 THEN [NoTask EXCEPT !.pc = "portfolio", !.passes = 1] ELSE NoTask]

NextCycle == \E t \in TaskIds : UpdatePortfolio(t)

SpecCycle == InitCycle /\ [][NextCycle]_vars

----------------------------------------------------------------------------
\* The retry wrapper (utils/retry.py): one call through retry_async's wrapper.
\* Delays are in quarters of a second.

\* handle_exchange_errors, lines 356-360: max_attempts=3, delay=1.0, and the defaults
\* backoff=2.0, max_delay=60.0, jitter=True (lines 86-91).
ExchangeMaxAttempts == 3
backoff == 2
ExchangeRetry == [max_attempts |-> ExchangeMaxAttempts, delay |-> 4, max_delay |-> 240,
                  jitter |-> TRUE]

\* The largest max_attempts drawn.
MaxAttempts == 4

\* The parameters a retry_async decorator is built with: the ones of exchange
\* calls, and others with a max_delay below the delays the backoff reaches.
RetryParams ==
    {ExchangeRetry} \cup
    [max_attempts : 0..MaxAttempts, delay : {4, 16}, max_delay : {8, 240}, jitter : BOOLEAN]

\* What one await of the wrapped function yields: a value, an exception of one of
\* the types in `exceptions`, or an exception of another type.
CallOutcomes == {"ok", "retryable", "other"}

\* Lines 132-136: random.random() is in [0, 1), so the jittered delay is from half
\* the current delay up to just under it; without jitter it is the current delay.
jitter_delays(r) ==
    IF r.jitter THEN {r.current_delay \div 2, (3 * r.current_delay) \div 4, r.current_delay - 1}
    ELSE {r.current_delay}

\* Line 115, the while test: another await of the function, or (with nothing left
\* to try) the return None of line 152.
loop_test(r) ==
    IF r.attempt < r.max_attempts THEN [r EXCEPT !.pc = "calling"]
    ELSE [r EXCEPT !.pc = "returned", !.result = 0]

\* A variant of after_failure whose test of line 122 lets one more attempt through.
after_failure_OneMoreAttempt(r, jitter_delay) ==
    LET n == r.attempt + 1 IN
    IF n > r.max_attempts
    THEN [r EXCEPT !.attempt = n, !.pc = "raised",
                   !.error = [kind |-> "retryable", call |-> r.calls]]
    ELSE [r EXCEPT !.attempt = n, !.pc = "sleeping",
                   !.slept = Append(@, Min(jitter_delay, r.max_delay))]

\* Lines 119-138, the except clause for an exception in `exceptions`: the attempt
\* is counted; at max_attempts the exception is re-raised, else the wrapper sleeps
\* min(jitter_delay, max_delay).
after_failure(r, jitter_delay) ==
    LET n == r.attempt + 1 IN
    IF n >= r.max_attempts
    THEN [r EXCEPT !.attempt = n, !.pc = "raised",
                   !.error = [kind |-> "retryable", call |-> r.calls]]
    ELSE [r EXCEPT !.attempt = n, !.pc = "sleeping",
                   !.slept = Append(@, Min(jitter_delay, r.max_delay))]

\* The wrapper is called (lines 111-115).
InitRetry ==
    /\ PortfolioNew
    /\ FoldIdle
    /\ EngineNew
    /\ flt = NoFilter
    /\ fn = NoCall
    /\ active_symbols = OneSymbolSetup
    /\ \E params \in RetryParams :
          retry = loop_test([NoRetry EXCEPT !.max_attempts = params.max_attempts,
                                            !.delay = params.delay,
                                            !.max_delay = params.max_delay,
                                            !.jitter = params.jitter,
                                            !.current_delay = params.delay])

\* The awaited function returns (line 117: the wrapper returns its value) or raises:
\* an exception outside `exceptions` leaves the wrapper at once, another one goes
\* through the except clause.  Calls are numbered; a value or an error carries the
\* number of the call it came from.
FuncReturns ==
    /\ retry.pc = "calling"
    /\ \E out \in CallOutcomes :
          LET r == [retry EXCEPT !.calls = @ + 1, !.outcomes = Append(@, out)] IN
          \/ /\ out = "ok"
             /\ retry' = [r EXCEPT !.pc = "returned", !.result = r.calls]
          \/ /\ out = "other"
             /\ retry' = [r EXCEPT !.pc = "raised",
                                   !.error = [kind |-> "other", call |-> r.calls]]
          \/ /\ out = "retryable"
             /\ \E jitter_delay \in jitter_delays(r) : retry' = after_failure(r, jitter_delay)
    /\ UNCHANGED <<positions, balances, fold_vars, engine_vars, flt, active_symbols, fn>>

\* Lines 149-150: asyncio.sleep returns, the delay is multiplied, back to the while test.
SleepReturns ==
    /\ retry.pc = "sleeping"
    /\ retry' = loop_test([retry EXCEPT !.current_delay = @ * backoff])
    /\ UNCHANGED <<positions, balances, fold_vars, engine_vars, flt, active_symbols, fn>>

NextRetry == FuncReturns \/ SleepReturns

\* The awaited function and asyncio.sleep come back: weak fairness of both steps.
SpecRetry == InitRetry /\ [][NextRetry]_vars /\ WF_vars(FuncReturns) /\ WF_vars(SleepReturns)

----------------------------------------------------------------------------
\* An exchange call of the unified client: a function decorated with
\* handle_exchange_errors, whose body maps whatever was raised with map_ccxt_exception

\* The words map_ccxt_exception looks for in the lower-cased message.
Keywords ==
    {"rate limit", "too many requests", "insufficient", "balance", "invalid", "order",
     "amount", "symbol", "not found", "does not exist", "authentication", "unauthorized",
     "api key", "network", "connection", "timeout", "market", "closed"}

\* The messages drawn: the keywords a message contains, up to three of them.
Messages == {{a, b, c} : a \in Keywords, b \in Keywords, c \in Keywords} \cup {{}}

\* map_ccxt_exception, exceptions.py lines 268-340: the first branch of the elif
\* chain whose words are in the message gives the exception's class.
map_ccxt_exception(msg) ==
    IF "rate limit" \in msg \/ "too many requests" \in msg THEN "RateLimitError"
    ELSE IF "insufficient" \in msg /\ "balance" \in msg THEN "InsufficientBalanceError"
    ELSE IF "invalid" \in msg /\ ("order" \in msg \/ "amount" \in msg) THEN "InvalidOrderError"
    ELSE IF "symbol" \in msg /\ ("not found" \in msg \/ "does not exist" \in msg)
    THEN "SymbolNotFoundError"
    ELSE IF "authentication" \in msg \/ "unauthorized" \in msg \/ "api key" \in msg
    THEN "AuthenticationError"
    ELSE IF "network" \in msg \/ "connection" \in msg \/ "timeout" \in msg THEN "NetworkError"
    ELSE IF "market" \in msg /\ "closed" \in msg THEN "MarketClosedError"
    ELSE "ExchangeError"

\* A variant of retryable_exceptions that also lists AuthenticationError.
retryable_exceptions_WithAuthentication ==
    {"NetworkError", "RateLimitError", "ConnectionError", "TimeoutError", "AuthenticationError"}

\* retry.py lines 341-353: the classes retry_async is given, and the ones the inner
\* wrapper records with retry False.
retryable_exceptions == {"NetworkError", "RateLimitError", "ConnectionError", "TimeoutError"}
non_retryable_exceptions ==
    {"AuthenticationError", "InsufficientBalanceError", "InvalidOrderError"}

\* error_aggregator.record_error, as the inner wrapper calls it (lines 365-385): one
\* record per exception that leaves the function, with the retry flag of its branch.
record_error(records, kind, call) ==
    Append(records, [error_type |-> kind, call |-> call,
                     retry |-> kind \notin non_retryable_exceptions])

\* The decorated function is called: the wrapper of retry_async with the
\* parameters of lines 356-360.
InitExchangeCall ==
    /\ PortfolioNew
    /\ FoldIdle
    /\ EngineNew
    /\ flt = NoFilter
    /\ fn = NoCall
    /\ active_symbols = OneSymbolSetup
    /\ retry = loop_test([NoRetry EXCEPT !.max_attempts = ExchangeRetry.max_attempts,
                                         !.delay = ExchangeRetry.delay,
                                         !.max_delay = ExchangeRetry.max_delay,
                                         !.jitter = ExchangeRetry.jitter,
                                         !.current_delay = ExchangeRetry.delay])

\* The awaited function returns a value, or its body raised and the mapped
\* exception leaves it: the inner wrapper records it and re-raises (lines 365-385),
\* and retry_async catches it only when its class is in retryable_exceptions.
ExchangeCallReturns ==
    /\ retry.pc = "calling"
    /\ \/ retry' = [retry EXCEPT !.calls = @ + 1, !.outcomes = Append(@, "ok"),
                                 !.pc = "returned", !.result = retry.calls + 1]
       \/ \E msg \in Messages :
             LET kind == map_ccxt_exception(msg)
                 r == [retry EXCEPT !.calls = @ + 1, !.outcomes = Append(@, kind),
                                    !.records = record_error(@, kind, retry.calls + 1)]
             IN IF kind \in retryable_exceptions
                THEN \E jitter_delay \in jitter_delays(r) :
                        retry' = [after_failure(r, jitter_delay) EXCEPT !.error.kind =
                                     IF @ = "" THEN "" ELSE kind]
                ELSE retry' = [r EXCEPT !.pc = "raised",
                                        !.error = [kind |-> kind, call |-> r.calls]]
    /\ UNCHANGED <<positions, balances, fold_vars, engine_vars, flt, active_symbols, fn>>

NextExchangeCall == ExchangeCallReturns \/ SleepReturns

SpecExchangeCall == InitExchangeCall /\ [][NextExchangeCall]_vars

----------------------------------------------------------------------------
\* The strategies (system_trading/strategies).  A window of bars is modelled by
\* its length and by what pandas_ta computes on its last bar; floats that are
\* thresholds or scores are in hundredths.

\* A float that may be a number, inf or NaN (the quotient of two pandas Series).
Num(x) == [kind |-> "num", v |-> x]
NaN == [kind |-> "nan", v |-> 0]
Inf == [kind |-> "inf", v |-> 0]

\* Series / Series on the last bar: numpy division, x/0 is inf and 0/0 is NaN,
\* neither raises.  The quotient is in hundredths.
series_div(a, b) ==
    IF b = 0 THEN (IF a = 0 THEN NaN ELSE Inf) ELSE Num((a * 100) \div b)

\* x > y for a float x and a number y: every comparison with NaN is false.
float_gt(x, y) == x.kind = "inf" \/ (x.kind = "num" /\ x.v > y)

Max3(a, b, c) == Max(a, Max(b, c))

\* EnhancedMAStrategy.__init__ with its defaults (lines 22-57), min_confidence given.
EnhancedMAStrategy(min_confidence) ==
    [name |-> "EnhancedMAStrategy",
     parameters |-> [fast_ema |-> 12, slow_ema |-> 26, signal_ema |-> 9, rsi_period |-> 14,
                     rsi_oversold |-> 30, rsi_overbought |-> 70, volume_threshold |-> 150,
                     atr_period |-> 14, min_confidence |-> min_confidence]]

\* RSIStrategy.__init__ with its defaults (lines 18-51), volume_confirmation given.
RSIStrategy(volume_confirmation) ==
    [name |-> "RSIStrategy",
     parameters |-> [rsi_period |-> 14, oversold_level |-> 30, overbought_level |-> 70,
                     trend_ema_period |-> 50, divergence_lookback |-> 10,
                     min_divergence_bars |-> 5, volume_confirmation |-> volume_confirmation]]

\* The window lengths drawn: around the two thresholds (36 and 60 bars), and one
\* shorter than every lookback.
BarCounts == {10, 35, 36, 59, 60}
MinConfidences == {0, 30, 60, 70, 100}
\* (current volume, its 20-bar average): no volume at all, average, a spike.
VolumePairs == {<<0, 0>>, <<1000, 1000>>, <<2000, 1000>>}

Window(bars, macd, fast_ema, rsi, vol, support, resistance, trend_ema, bull_div, bear_div) ==
    [bars |-> bars, macd |-> macd, macd_signal |-> 0, fast_ema |-> fast_ema, slow_ema |-> 100,
     rsi |-> rsi, volume |-> vol[1], volume_sma |-> vol[2], close |-> 100,
     support |-> support, resistance |-> resistance, trend_ema |-> trend_ema,
     bullish_divergence |-> bull_div, bearish_divergence |-> bear_div]

EnhancedMAWindows ==
    {Window(b, m, f, r, v, s, t, 100, FALSE, FALSE) :
        b \in BarCounts, m \in {-1, 0, 1}, f \in {99, 100, 101}, r \in {20, 50, 65, 80},
        v \in VolumePairs, s \in {90, 100}, t \in {100, 110}}

RSIWindows ==
    {Window(b, 0, 100, r, v, 90, 110, e, bd, sd) :
        b \in BarCounts, r \in {20, 50, 65, 80}, v \in VolumePairs, e \in {95, 105},
        bd \in BOOLEAN, sd \in BOOLEAN}

\* _calculate_indicators (lines 104-153).  pandas_ta returns None, or a column
\* whose last value is missing, on a window shorter than the indicator's
\* lookback (the MACD signal line needs slow_ema + signal_ema - 1 bars), and
\* the subscript of None raises; on longer windows every value is computed.
calculate_indicators(self, data) ==
    IF data.bars < self.parameters.slow_ema + self.parameters.signal_ema - 1
    THEN [raised |-> TRUE]
    ELSE [raised |-> FALSE,
          fast_ema |-> data.fast_ema, slow_ema |-> data.slow_ema,
          macd |-> data.macd, macd_signal |-> data.macd_signal,
          macd_histogram |-> data.macd - data.macd_signal,
          rsi |-> data.rsi,
          volume_ratio |-> series_div(data.volume, data.volume_sma),
          support |-> data.support, resistance |-> data.resistance]

\* _analyze_signals (lines 167-264): the two scores and the primary signal.
analyze_signals(self, data, indicators) ==
    LET macd_bullish == indicators.macd > indicators.macd_signal
                            /\ indicators.macd_histogram > 0
        macd_bearish == indicators.macd < indicators.macd_signal
                            /\ indicators.macd_histogram < 0
        ema_bullish == indicators.fast_ema > indicators.slow_ema
        ema_bearish == indicators.fast_ema < indicators.slow_ema
        rsi_oversold == indicators.rsi < self.parameters.rsi_oversold
        rsi_overbought == indicators.rsi > self.parameters.rsi_overbought
        rsi_neutral == 40 <= indicators.rsi /\ indicators.rsi <= 60
        volume_spike == float_gt(indicators.volume_ratio, self.parameters.volume_threshold)
        current_price == data.close
        bullish_score ==
              (IF macd_bullish THEN 25 ELSE 0)
            + (IF ema_bullish THEN 25 ELSE 0)
            + (IF rsi_oversold \/ (rsi_neutral /\ ema_bullish) THEN 20 ELSE 0)
            + (IF volume_spike THEN 15 ELSE 0)
            + (IF current_price > indicators.support THEN 15 ELSE 0)
        bearish_score ==
              (IF macd_bearish THEN 25 ELSE 0)
            + (IF ema_bearish THEN 25 ELSE 0)
            + (IF rsi_overbought \/ (rsi_neutral /\ ema_bearish) THEN 20 ELSE 0)
            + (IF volume_spike THEN 15 ELSE 0)
            + (IF current_price < indicators.resistance THEN 15 ELSE 0)
        scores == [bullish_score |-> bullish_score, bearish_score |-> bearish_score,
                   volume_spike |-> volume_spike]
    IN  IF bullish_score > bearish_score /\ bullish_score > self.parameters.min_confidence
        THEN scores @@ [signal |-> "bullish", signal_strength |-> bullish_score]
        ELSE IF bearish_score > bullish_score
                    /\ bearish_score > self.parameters.min_confidence
        THEN scores @@ [signal |-> "bearish", signal_strength |-> bearish_score]
        ELSE scores @@ [signal |-> "neutral",
                        signal_strength |-> Max(bullish_score, bearish_score)]

\* sum(conditions) for a list of booleans.
CountTrue(conditions) == Cardinality({i \in DOMAIN conditions : conditions[i]})

\* The seven conditions of should_buy (lines 273-286) and of should_sell (302-315).
buy_conditions(self, data, indicators, signal_analysis) ==
    << indicators.macd > indicators.macd_signal,
       indicators.macd_histogram > 0,
       indicators.fast_ema > indicators.slow_ema,
       indicators.rsi < self.parameters.rsi_overbought,
       data.close > indicators.support,
       signal_analysis.signal = "bullish",
       signal_analysis.signal_strength > self.parameters.min_confidence >>

sell_conditions(self, data, indicators, signal_analysis) ==
    << indicators.macd < indicators.macd_signal,
       indicators.macd_histogram < 0,
       indicators.fast_ema < indicators.slow_ema,
       indicators.rsi > self.parameters.rsi_oversold,
       data.close < indicators.resistance,
       signal_analysis.signal = "bearish",
       signal_analysis.signal_strength > self.parameters.min_confidence >>

\* sum(conditions) >= len(conditions) * 0.6 (lines 289 and 318).
majority(conditions) == CountTrue(conditions) * 10 >= Len(conditions) * 6

\* EnhancedMAStrategy.should_buy (lines 266-293): an exception is answered with False.
EnhancedMAStrategy_should_buy(self, data) ==
    LET indicators == calculate_indicators(self, data)
    IN  IF indicators.raised THEN FALSE
        ELSE majority(buy_conditions(self, data, indicators,
                                     analyze_signals(self, data, indicators)))

\* EnhancedMAStrategy.should_sell (lines 295-322).
EnhancedMAStrategy_should_sell(self, data) ==
    LET indicators == calculate_indicators(self, data)
    IN  IF indicators.raised THEN FALSE
        ELSE majority(sell_conditions(self, data, indicators,
                                      analyze_signals(self, data, indicators)))

\* The insufficient-data result of both analyze methods.
InsufficientData(required_periods, available_periods) ==
    [error |-> "Insufficient data for analysis", required_periods |-> required_periods,
     available_periods |-> available_periods]

\* A variant of EnhancedMAStrategy.analyze whose length test leaves out the margin
\* of 10 bars.
EnhancedMAStrategy_analyze_NoMargin(self, data) ==
    LET required_periods == Max3(self.parameters.slow_ema, self.parameters.rsi_period,
                                 self.parameters.atr_period)
        indicators == calculate_indicators(self, data)
    IN  IF data.bars < required_periods
        THEN InsufficientData(required_periods + 10, data.bars)
        ELSE IF indicators.raised THEN [error |-> "Analysis failed"]
        ELSE [fast_ema |-> indicators.fast_ema, slow_ema |-> indicators.slow_ema,
              macd |-> indicators.macd, rsi |-> indicators.rsi,
              buy_signal |-> EnhancedMAStrategy_should_buy(self, data),
              sell_signal |-> EnhancedMAStrategy_should_sell(self, data)]
             @@ analyze_signals(self, data, indicators)

\* EnhancedMAStrategy.analyze (lines 59-102).
EnhancedMAStrategy_analyze(self, data) ==
    LET required_periods == Max3(self.parameters.slow_ema, self.parameters.rsi_period,
                                 self.parameters.atr_period)
        indicators == calculate_indicators(self, data)
    IN  IF data.bars < required_periods + 10
        THEN InsufficientData(required_periods + 10, data.bars)
        ELSE IF indicators.raised THEN [error |-> "Analysis failed"]
        ELSE [fast_ema |-> indicators.fast_ema, slow_ema |-> indicators.slow_ema,
              macd |-> indicators.macd, macd_signal |-> indicators.macd_signal,
              macd_histogram |-> indicators.macd_histogram, rsi |-> indicators.rsi,
              volume_ratio |-> indicators.volume_ratio,
              support |-> indicators.support, resistance |-> indicators.resistance,
              buy_signal |-> EnhancedMAStrategy_should_buy(self, data),
              sell_signal |-> EnhancedMAStrategy_should_sell(self, data),
              current_price |-> data.close]
             @@ analyze_signals(self, data, indicators)

\* TradingSignal(...), and Optional values as sequences of length at most one.
TradingSignal(symbol, side, strength, confidence, strategy) ==
    [symbol |-> symbol, side |-> side, strength |-> strength, confidence |-> confidence,
     strategy |-> strategy]
None == <<>>
Some(x) == <<x>>

\* EnhancedMAStrategy.generate_signal (lines 324-371).
EnhancedMAStrategy_generate_signal(self, data) ==
    LET analysis == EnhancedMAStrategy_analyze(self, data)
    IN  IF "error" \in DOMAIN analysis THEN None
        ELSE IF analysis.buy_signal
        THEN Some(TradingSignal("UNKNOWN", BUY, analysis.signal_strength,
                                analysis.bullish_score, self.name))
        ELSE IF analysis.sell_signal
        THEN Some(TradingSignal("UNKNOWN", SELL, analysis.signal_strength,
                                analysis.bearish_score, self.name))
        ELSE None

\* RSIStrategy._analyze_volume (lines 233-253).
analyze_volume(data) ==
    LET current_volume == data.volume
        avg_volume == data.volume_sma
        volume_ratio == IF avg_volume > 0 THEN series_div(current_volume, avg_volume)
                        ELSE Num(100)
    IN  [ratio |-> volume_ratio, spike |-> float_gt(volume_ratio, 150)]

\* RSIStrategy._calculate_signal_strength (lines 255-286).
calculate_signal_strength(self, rsi, bullish_div, bearish_div, trend, volume_analysis) ==
    LET strength ==
              (IF rsi < self.parameters.oversold_level THEN 30
               ELSE IF rsi > self.parameters.overbought_level THEN 30 ELSE 0)
            + (IF bullish_div \/ bearish_div THEN 40 ELSE 0)
            + (IF (rsi < self.parameters.oversold_level /\ trend = "bullish")
                    \/ (rsi > self.parameters.overbought_level /\ trend = "bearish")
               THEN 20 ELSE 0)
            + (IF self.parameters.volume_confirmation /\ volume_analysis.spike
               THEN 10 ELSE 0)
    IN  Min(strength, 100)

\* The depth of nested analyze calls the interpreter's stack allows before a
\* call raises RecursionError.
RecursionLimit == 3

RECURSIVE RSIStrategy_analyze(_, _, _)
RECURSIVE RSIStrategy_should_buy(_, _, _)
RECURSIVE RSIStrategy_should_sell(_, _, _)

\* RSIStrategy.analyze (lines 53-133), with `frames` nested calls of analyze
\* still possible: it calls should_buy and should_sell, which call it.
RSIStrategy_analyze(self, data, frames) ==
    LET required_periods == Max3(self.parameters.rsi_period,
                                 self.parameters.trend_ema_period,
                                 self.parameters.divergence_lookback) + 10
        volume_analysis == analyze_volume(data)
        trend == IF data.close > data.trend_ema THEN "bullish" ELSE "bearish"
    IN  IF data.bars < required_periods
        THEN InsufficientData(required_periods, data.bars)
        ELSE [rsi |-> data.rsi, trend_ema |-> data.trend_ema, trend |-> trend,
              bullish_divergence |-> data.bullish_divergence,
              bearish_divergence |-> data.bearish_divergence,
              volume_spike |-> volume_analysis.spike,
              volume_ratio |-> volume_analysis.ratio,
              buy_signal |-> RSIStrategy_should_buy(self, data, frames),
              sell_signal |-> RSIStrategy_should_sell(self, data, frames),
              signal_strength |->
                  calculate_signal_strength(self, data.rsi, data.bullish_divergence,
                                            data.bearish_divergence, trend, volume_analysis),
              current_price |-> data.close,
              oversold |-> data.rsi < self.parameters.oversold_level,
              overbought |-> data.rsi > self.parameters.overbought_level]

\* RSIStrategy.should_buy (lines 288-313): the call of analyze that the stack
\* no longer allows raises inside the try, which answers False.
RSIStrategy_should_buy(self, data, frames) ==
    IF frames = 0 THEN FALSE
    ELSE LET analysis == RSIStrategy_analyze(self, data, frames - 1)
         IN  IF "error" \in DOMAIN analysis THEN FALSE
             ELSE /\ analysis.rsi < self.parameters.oversold_level
                  /\ (analysis.bullish_divergence \/ analysis.trend = "bullish")
                  /\ (~self.parameters.volume_confirmation \/ analysis.volume_spike)

\* RSIStrategy.should_sell (lines 315-340).
RSIStrategy_should_sell(self, data, frames) ==
    IF frames = 0 THEN FALSE
    ELSE LET analysis == RSIStrategy_analyze(self, data, frames - 1)
         IN  IF "error" \in DOMAIN analysis THEN FALSE
             ELSE /\ analysis.rsi > self.parameters.overbought_level
                  /\ (analysis.bearish_divergence \/ analysis.trend = "bearish")
                  /\ (~self.parameters.volume_confirmation \/ analysis.volume_spike)

\* A variant of RSIStrategy.generate_signal whose confidence is not capped.
RSIStrategy_generate_signal_Uncapped(self, data) ==
    LET analysis == RSIStrategy_analyze(self, data, RecursionLimit)
    IN  IF "error" \in DOMAIN analysis THEN None
        ELSE IF analysis.buy_signal
        THEN Some(TradingSignal("UNKNOWN", BUY, analysis.signal_strength,
                                analysis.signal_strength + 10, self.name))
        ELSE IF analysis.sell_signal
        THEN Some(TradingSignal("UNKNOWN", SELL, analysis.signal_strength,
                                analysis.signal_strength + 10, self.name))
        ELSE None

\* RSIStrategy.generate_signal (lines 342-387).
RSIStrategy_generate_signal(self, data) ==
    LET analysis == RSIStrategy_analyze(self, data, RecursionLimit)
    IN  IF "error" \in DOMAIN analysis THEN None
        ELSE IF analysis.buy_signal
        THEN Some(TradingSignal("UNKNOWN", BUY, analysis.signal_strength,
                                Min(analysis.signal_strength + 10, 100), self.name))
        ELSE IF analysis.sell_signal
        THEN Some(TradingSignal("UNKNOWN", SELL, analysis.signal_strength,
                                Min(analysis.signal_strength + 10, 100), self.name))
        ELSE None

\* The four methods of BaseStrategy, dispatched on the object's class.
analyze(self, data) ==
    IF self.name = "EnhancedMAStrategy" THEN EnhancedMAStrategy_analyze(self, data)
    ELSE RSIStrategy_analyze(self, data, RecursionLimit)

should_buy(self, data) ==
    IF self.name = "EnhancedMAStrategy" THEN EnhancedMAStrategy_should_buy(self, data)
    ELSE RSIStrategy_should_buy(self, data, RecursionLimit)

should_sell(self, data) ==
    IF self.name = "EnhancedMAStrategy" THEN EnhancedMAStrategy_should_sell(self, data)
    ELSE RSIStrategy_should_sell(self, data, RecursionLimit)

generate_signal(self, data) ==
    IF self.name = "EnhancedMAStrategy" THEN EnhancedMAStrategy_generate_signal(self, data)
    ELSE RSIStrategy_generate_signal(self, data)

\* A strategy object and a window are drawn; one of its methods is then called.
InitStrategy ==
    /\ PortfolioNew
    /\ FoldIdle
    /\ EngineNew
    /\ flt = NoFilter
    /\ retry = NoRetry
    /\ active_symbols = OneSymbolSetup
    /\ \/ \E mc \in MinConfidences, data \in EnhancedMAWindows :
             fn = [NoCall EXCEPT !.self = EnhancedMAStrategy(mc), !.arg = data]
       \/ \E vc \in BOOLEAN, data \in RSIWindows :
             fn = [NoCall EXCEPT !.self = RSIStrategy(vc), !.arg = data]

Analyze ==
    /\ fn.op = "none"
    /\ fn' = [fn EXCEPT !.op = "analyze", !.result = analyze(fn.self, fn.arg)]
    /\ UNCHANGED <<positions, balances, fold_vars, engine_vars, flt, retry, active_symbols>>

ShouldBuy ==
    /\ fn.op = "none"
    /\ fn' = [fn EXCEPT !.op = "should_buy", !.result = should_buy(fn.self, fn.arg)]
    /\ UNCHANGED <<positions, balances, fold_vars, engine_vars, flt, retry, active_symbols>>

ShouldSell ==
    /\ fn.op = "none"
    /\ fn' = [fn EXCEPT !.op = "should_sell", !.result = should_sell(fn.self, fn.arg)]
    /\ UNCHANGED <<positions, balances, fold_vars, engine_vars, flt, retry, active_symbols>>

GenerateSignal ==
    /\ fn.op = "none"
    /\ fn' = [fn EXCEPT !.op = "generate_signal", !.result = generate_signal(fn.self, fn.arg)]
    /\ UNCHANGED <<positions, balances, fold_vars, engine_vars, flt, retry, active_symbols>>

NextStrategy == Analyze \/ ShouldBuy \/ ShouldSell \/ GenerateSignal

SpecStrategy == InitStrategy /\ [][NextStrategy]_vars

----------------------------------------------------------------------------
\* The Portfolio Manager's risk functions, and the order endpoint that asks them
\* (system_trading/api/routers/trading.py).  Stop and take-profit prices are in
\* thousandths of the entry price's unit, risk_reward_ratio in tenths.

\* OrderRequest: the body of POST /order.
OrderRequest(symbol, exchange, side, amount, price) ==
    [symbol |-> symbol, exchange |-> exchange, side |-> side, amount |-> amount,
     price |-> price]

\* A variant of check_risk_limits that refuses an order whose notional equals the
\* free balance.
check_risk_limits_StrictlyBelow(bal, order) ==
    LET key == BalKey(order.exchange, quote_asset(order.symbol))
    IN  key \in DOMAIN bal /\ order.amount * order.price < bal[key] * 10000

\* check_risk_limits(order): there is a balance record for the order's quote asset
\* on its exchange, and amount * price is at most its free amount (amounts are
\* in units of 0.0001).
check_risk_limits(bal, order) ==
    LET key == BalKey(order.exchange, quote_asset(order.symbol))
    IN  key \in DOMAIN bal /\ order.amount * order.price <= bal[key] * 10000

\* A variant of calculate_stop_loss that puts the stop of a short below the entry.
calculate_stop_loss_SameDirection(entry_price, side) == entry_price * (1000 - 20)

\* calculate_stop_loss(entry_price, side) with its defaults (no ATR, 2%):
\* entry * 0.98 for a long, entry * 1.02 for a short.
calculate_stop_loss(entry_price, side) ==
    IF side = BUY THEN entry_price * (1000 - 20) ELSE entry_price * (1000 + 20)

\* calculate_take_profit(entry_price, side, risk_reward_ratio) with the default
\* stop of 2%: entry + (entry * 0.02) * ratio for a long, entry - ... for a short.
calculate_take_profit(entry_price, side, risk_reward_ratio) ==
    LET profit_distance == entry_price * 2 * risk_reward_ratio
    IN  IF side = BUY THEN entry_price * 1000 + profit_distance
        ELSE entry_price * 1000 - profit_distance

\* place_order (trading.py lines 97-141): the order is refused when the risk check
\* fails; otherwise create_order is awaited, and an exception of it is answered
\* with a failure response.
place_order(bal, order_request, create_order_raises) ==
    IF ~check_risk_limits(bal, order_request)
    THEN [success |-> FALSE, error |-> "Order violates risk limits", requested |-> FALSE]
    ELSE IF create_order_raises
    THEN [success |-> FALSE, error |-> "Failed to place order", requested |-> TRUE]
    ELSE [success |-> TRUE, error |-> "", requested |-> TRUE]

\* Balances as update_balance leaves them: per exchange no USDT record or one.
RiskBalances ==
    UNION {[{BalKey(e, "USDT") : e \in held} -> {1000, 5000, 10000}] :
              held \in SUBSET {"binance", "upbit"}}

RiskOrders ==
    {OrderRequest("BTC/USDT", e, sd, a, 50000) :
        e \in {"binance", "upbit"}, sd \in Sides, a \in {1000, 2000, 10000}}

RiskEntryPrices == {1, 3, 50000}
RiskRewardRatios == {5, 10, 20, 30}

RiskArg(order, entry_price, risk_reward_ratio) ==
    [order |-> order, entry_price |-> entry_price, risk_reward_ratio |-> risk_reward_ratio]

InitRisk ==
    /\ positions = <<>>
    /\ FoldIdle
    /\ EngineNew
    /\ flt = NoFilter
    /\ retry = NoRetry
    /\ active_symbols = OneSymbolSetup
    /\ \/ /\ balances \in RiskBalances
          /\ \E order \in RiskOrders :
                fn = [NoCall EXCEPT !.self = "PortfolioManager",
                                    !.arg = RiskArg(order, 50000, 20)]
       \/ /\ balances = <<>>
          /\ \E sd \in Sides, e \in RiskEntryPrices, rr \in RiskRewardRatios :
                fn = [NoCall EXCEPT !.self = "PortfolioManager",
                         !.arg = RiskArg(OrderRequest("BTC/USDT", "binance", sd, 1000, e), e, rr)]

CheckRiskLimits ==
    /\ fn.op = "none"
    /\ fn' = [fn EXCEPT !.op = "check_risk_limits",
                        !.result = check_risk_limits(balances, fn.arg.order)]
    /\ UNCHANGED <<positions, balances, fold_vars, engine_vars, flt, retry, active_symbols>>

PlaceOrder ==
    /\ fn.op = "none"
    /\ \E create_order_raises \in BOOLEAN :
          fn' = [fn EXCEPT !.op = "place_order",
                           !.result = place_order(balances, fn.arg.order, create_order_raises)]
    /\ UNCHANGED <<positions, balances, fold_vars, engine_vars, flt, retry, active_symbols>>

CalculateStopLoss ==
    /\ fn.op = "none"
    /\ fn' = [fn EXCEPT !.op = "calculate_stop_loss",
                        !.result = calculate_stop_loss(fn.arg.entry_price, fn.arg.order.side)]
    /\ UNCHANGED <<positions, balances, fold_vars, engine_vars, flt, retry, active_symbols>>

CalculateTakeProfit ==
    /\ fn.op = "none"
    /\ fn' = [fn EXCEPT !.op = "calculate_take_profit",
                        !.result = calculate_take_profit(fn.arg.entry_price, fn.arg.order.side,
                                                         fn.arg.risk_reward_ratio)]
    /\ UNCHANGED <<positions, balances, fold_vars, engine_vars, flt, retry, active_symbols>>

NextRisk == CheckRiskLimits \/ PlaceOrder \/ CalculateStopLoss \/ CalculateTakeProfit

SpecRisk == InitRisk /\ [][NextRisk]_vars

----------------------------------------------------------------------------
\* add_strategy, and the routing of a signal's order on the map it builds

\* Lines 60-62: the symbols not yet in the exchange's list are appended, in order.
RECURSIVE append_symbols(_, _)
append_symbols(list, symbols) ==
    IF symbols = <<>> THEN list
    ELSE append_symbols(IF Head(symbols) \in Range(list) THEN list
                        ELSE Append(list, Head(symbols)),
                        Tail(symbols))

\* Lines 56-62 for one exchange: a new key goes to the end of the dict, an
\* existing key keeps its place.
add_exchange(active, exchange, symbols) ==
    LET hits == {j \in 1..Len(active) : active[j].exchange = exchange} IN
    IF hits = {}
    THEN Append(active, [exchange |-> exchange, symbols |-> append_symbols(<<>>, symbols)])
    ELSE [j \in 1..Len(active) |->
             IF j \in hits
             THEN [active[j] EXCEPT !.symbols = append_symbols(@, symbols)]
             ELSE active[j]]

\* add_strategy(name, strategy, symbols, exchanges) (lines 38-69), on active_symbols.
RECURSIVE add_strategy(_, _, _)
add_strategy(active, symbols, exchanges) ==
    IF exchanges = <<>> THEN active
    ELSE add_strategy(add_exchange(active, Head(exchanges), symbols), symbols,
                      Tail(exchanges))

RECURSIVE add_strategies(_, _)
add_strategies(active, calls) ==
    IF calls = <<>> THEN active
    ELSE add_strategies(add_strategy(active, Head(calls).symbols, Head(calls).exchanges),
                        Tail(calls))

\* The most add_strategy calls before the engine starts.
MaxStrategies == 2

StrategyCalls ==
    [symbols : {<<"BTC/USDT">>, <<"ETH/USDT">>, <<"BTC/USDT", "ETH/USDT">>},
     exchanges : {<<"binance">>, <<"upbit">>, <<"binance", "upbit">>, <<"upbit", "binance">>}]

StrategyCallLists == UNION {[1..n -> StrategyCalls] : n \in 1..MaxStrategies}

RoutePositions ==
    {<<>>} \cup {update_position(<<>>, Position("BTC/USDT", BUY, 1000, 50000, 50000, 0, e)) :
                    e \in {"binance", "upbit"}}

\* The loop of a running engine, after the add_strategy calls drawn, right after
\* _filter_signals kept one signal for a symbol of the map.
InitRoute ==
    /\ FoldIdle
    /\ flt = NoFilter
    /\ retry = NoRetry
    /\ is_running = TRUE
    /\ stop_pc = NotStopping
    /\ last_exec = NoExec
    /\ active_orders = <<>>
    /\ positions \in RoutePositions
    /\ balances = update_balances(update_balances(<<>>, "binance", 10000), "upbit", 10000)
    /\ \E calls \in StrategyCallLists :
          /\ fn = [NoCall EXCEPT !.op = "add_strategy", !.self = "TradingEngine", !.arg = calls]
          /\ active_symbols = add_strategies(<<>>, calls)
          /\ \E sd \in Sides, j \in 1..Len(active_symbols) :
             \E s \in Range(active_symbols[j].symbols) :
                tasks = [t \in TaskIds |->
                            IF t = 1
                            THEN [NoTask EXCEPT !.pc = "ticker", !.passes = 1,
                                                !.filtered = <<Signal(s, sd, 80, 75)>>]
                            ELSE NoTask]

NextRoute ==
    \/ \E t \in TaskIds : ExecuteSignal(t)
    \/ \E t \in TaskIds : CreateOrderReturns(t)

SpecRoute == InitRoute /\ [][NextRoute]_vars

----------------------------------------------------------------------------
\* SymbolConverter (utils/symbol_converter.py).  A str is the sequence of its
\* characters.

USDT == <<"U", "S", "D", "T">>
USDC == <<"U", "S", "D", "C">>
BTC == <<"B", "T", "C">>
ETH == <<"E", "T", "H">>
BNB == <<"B", "N", "B">>
KRW == <<"K", "R", "W">>

\* SymbolConverter.quote_currencies (lines 47-50), each list in its order.
quote_currencies(exchange) ==
    IF exchange = "binance" THEN <<USDT, BTC, ETH, BNB, USDC>> ELSE <<KRW, BTC, USDT>>

LowerCase == <<"b", "t", "c", "u", "s", "d", "k", "r", "w">>
UpperCase == <<"B", "T", "C", "U", "S", "D", "K", "R", "W">>

\* str.upper()
str_upper(s) ==
    [j \in 1..Len(s) |->
        IF \E k \in 1..Len(LowerCase) : LowerCase[k] = s[j]
        THEN UpperCase[CHOOSE k \in 1..Len(LowerCase) : LowerCase[k] = s[j]]
        ELSE s[j]]

\* str.split(sep) for a one-character separator.
RECURSIVE str_split(_, _)
str_split(s, sep) ==
    IF \A j \in 1..Len(s) : s[j] # sep THEN <<s>>
    ELSE LET k == CHOOSE j \in 1..Len(s) : s[j] = sep /\ \A i \in 1..(j - 1) : s[i] # sep
         IN <<SubSeq(s, 1, k - 1)>> \o str_split(SubSeq(s, k + 1, Len(s)), sep)

\* str.endswith(suffix)
str_endswith(s, suffix) ==
    /\ Len(s) >= Len(suffix)
    /\ SubSeq(s, Len(s) - Len(suffix) + 1, Len(s)) = suffix

\* _parse_standard_symbol (lines 99-108).
parse_standard_symbol(symbol) ==
    LET parts == str_split(symbol, "/") IN
    IF Len(parts) # 2 THEN [raised |-> TRUE]
    ELSE [raised |-> FALSE, base |-> str_upper(parts[1]), quote |-> str_upper(parts[2])]

\* A variant of _split_binance_symbol that always cuts the last four characters.
split_binance_symbol_LastFourOnly(symbol) ==
    LET s == str_upper(symbol) IN
    IF Len(s) > 4
    THEN [raised |-> FALSE, base |-> SubSeq(s, 1, Len(s) - 4),
          quote |-> SubSeq(s, Len(s) - 3, Len(s))]
    ELSE [raised |-> TRUE]

\* _split_binance_symbol (lines 120-137): the first known quote, in list order,
\* that ends the symbol and leaves a base; failing that, the last four characters.
split_binance_symbol(symbol) ==
    LET s == str_upper(symbol)
        quotes == quote_currencies("binance")
        hits == {k \in 1..Len(quotes) :
                    str_endswith(s, quotes[k]) /\ Len(s) > Len(quotes[k])}
    IN
    IF hits # {}
    THEN LET quote == quotes[CHOOSE k \in hits : \A j \in hits : k <= j] IN
         [raised |-> FALSE, base |-> SubSeq(s, 1, Len(s) - Len(quote)), quote |-> quote]
    ELSE IF Len(s) > 4
    THEN [raised |-> FALSE, base |-> SubSeq(s, 1, Len(s) - 4),
          quote |-> SubSeq(s, Len(s) - 3, Len(s))]
    ELSE [raised |-> TRUE]

\* _from_binance_format (lines 110-118).
from_binance_format(symbol) ==
    IF \E j \in 1..Len(symbol) : symbol[j] = "/"
    THEN [raised |-> FALSE, value |-> str_upper(symbol)]
    ELSE LET split == split_binance_symbol(symbol) IN
         IF split.raised THEN [raised |-> TRUE]
         ELSE [raised |-> FALSE, value |-> split.base \o <<"/">> \o split.quote]

\* _to_binance_format (lines 139-141).
to_binance_format(base, quote) == str_upper(base) \o str_upper(quote)

\* _from_upbit_format (lines 143-153).
from_upbit_format(symbol) ==
    LET parts == str_split(symbol, "-") IN
    IF Len(parts) # 2 THEN [raised |-> TRUE]
    ELSE [raised |-> FALSE, value |-> str_upper(parts[2]) \o <<"/">> \o str_upper(parts[1])]

\* _to_upbit_format (lines 155-157).
to_upbit_format(base, quote) == str_upper(quote) \o <<"-">> \o str_upper(base)

\* to_standard_format (lines 52-73): an exception gives the symbol back unchanged.
to_standard_format(symbol, exchange) ==
    LET converted == IF exchange = "binance" THEN from_binance_format(symbol)
                     ELSE from_upbit_format(symbol)
    IN IF converted.raised THEN symbol ELSE converted.value

\* from_standard_format (lines 75-97): an exception gives the symbol back unchanged.
from_standard_format(symbol, exchange) ==
    LET parsed == parse_standard_symbol(symbol) IN
    IF parsed.raised THEN symbol
    ELSE IF exchange = "binance" THEN to_binance_format(parsed.base, parsed.quote)
    ELSE to_upbit_format(parsed.base, parsed.quote)

\* The longest base currency drawn.
MaxBaseLen == 2

BaseChars == {"B", "T", "C", "U", "S", "D", "b", "X"}
BaseStrings == UNION {[1..n -> BaseChars] : n \in 1..MaxBaseLen}

\* Quotes known to one exchange or to both, in either case, and two known to neither.
QuoteStrings ==
    {USDT, BTC, ETH, BNB, USDC, KRW, <<"u", "s", "d", "t">>, <<"k", "r", "w">>,
     <<"T", "C">>, <<"E", "U", "R">>}

\* The standard symbols drawn, and three strings that are not standard symbols.
ConverterSymbols ==
    {base \o <<"/">> \o quote : base \in BaseStrings, quote \in QuoteStrings}
        \cup {BTC \o USDT, BTC \o <<"/">> \o USDT \o <<"/">> \o ETH, KRW \o <<"-">> \o BTC}

\* A converter, about to convert a drawn symbol for a drawn exchange.
InitConvert ==
    /\ positions = <<>>
    /\ balances = <<>>
    /\ FoldIdle
    /\ EngineNew
    /\ flt = NoFilter
    /\ retry = NoRetry
    /\ active_symbols = OneSymbolSetup
    /\ \E symbol \in ConverterSymbols, exchange \in {"binance", "upbit"} :
          fn = [NoCall EXCEPT !.self = "SymbolConverter",
                              !.arg = [symbol |-> symbol, exchange |-> exchange]]

\* symbol_converter.from_standard_format(symbol, exchange)
FromStandardFormat ==
    /\ fn.op = "none"
    /\ fn' = [fn EXCEPT !.op = "from_standard_format",
                        !.result = from_standard_format(fn.arg.symbol, fn.arg.exchange)]
    /\ UNCHANGED <<positions, balances, fold_vars, engine_vars, flt, retry, active_symbols>>

\* symbol_converter.to_standard_format on what from_standard_format returned.
ToStandardFormat ==
    /\ fn.op = "from_standard_format"
    /\ fn' = [fn EXCEPT !.op = "to_standard_format",
                        !.result = to_standard_format(fn.result, fn.arg.exchange)]
    /\ UNCHANGED <<positions, balances, fold_vars, engine_vars, flt, retry, active_symbols>>

NextConvert == FromStandardFormat \/ ToStandardFormat

SpecConvert == InitConvert /\ [][NextConvert]_vars

----------------------------------------------------------------------------
\* One running loop that keeps polling its orders, on passes without signals

\* The statuses _map_order_status yields (unified_client.py lines 394-404).
OrderStatuses == {"open", "pending", "closed", "canceled", "rejected"}
TerminalStatuses == {"closed", "canceled", "rejected"}

\* What the exchange reports for an order: a terminal status stays what it is.
ExchangeStatuses(order) ==
    IF order.status \in TerminalStatuses THEN {order.status} ELSE OrderStatuses

\* Lines 354-374 for the order being polled, with every status the exchange can
\* report: get_order raises (logged, the order is left as it is) or returns the
\* order, which is stored under its id (line 361) and noted as completed when
\* CLOSED or CANCELED (line 364); then the loop goes on.
GetOrderReturns(t) ==
    /\ tasks[t].pc = "polling"
    /\ \E out \in ExchangeStatuses(tasks[t].cur) \cup {"raised"} :
          LET task == tasks[t]
              id == task.cur.id
              stored == IF out = "raised" THEN active_orders
                        ELSE track_order(active_orders, [task.cur EXCEPT !.status = out])
              completed == IF out \in {"closed", "canceled"}
                           THEN Append(task.completed, id) ELSE task.completed
              r == poll_next([task EXCEPT !.completed = completed], stored)
          IN /\ active_orders' = r.orders
             /\ SetTask(t, r.task)
             /\ last_exec' = PollEnded(r, completed)
    /\ UNCHANGED <<positions, balances, fold_vars, is_running, stop_pc, flt, retry, active_symbols, fn>>

\* Lines 132-141 on a pass in which no strategy signals: the flag is read,
\* _generate_signals returns an empty list, _process_signals returns at line 215
\* and _update_orders is next.  The iterations begun are counted up to MaxPasses.
QuietPass(t) ==
    /\ tasks[t].pc = "loop"
    /\ SetTask(t, IF is_running
                  THEN [tasks[t] EXCEPT !.pc = "orders", !.passes = Min(@ + 1, MaxPasses)]
                  ELSE [tasks[t] EXCEPT !.pc = "done"])
    /\ last_exec' = NoExec
    /\ UNCHANGED <<positions, balances, fold_vars, is_running, active_orders, stop_pc, flt, retry,
                   active_symbols, fn>>

\* A running loop about to poll orders the exchange has open; stop() is not called.
InitWatch ==
    /\ FoldIdle
    /\ flt = NoFilter
    /\ fn = NoCall
    /\ retry = NoRetry
    /\ active_symbols = OneSymbolSetup
    /\ is_running = TRUE
    /\ stop_pc = NotStopping
    /\ last_exec = NoExec
    /\ balances = <<>>
    /\ positions = <<>>
    /\ \E n \in 1..MaxPolled : active_orders = PolledOrders(n)
    /\ tasks = [t \in TaskIds |->
                   IF t = 1 THEN [NoTask EXCEPT !.pc = "orders", !.passes = 1] ELSE NoTask]

WatchStep(t) ==
    \/ PollBegin(t)
    \/ GetOrderReturns(t)
    \/ UpdatePortfolio(t)
    \/ Sleep(t)
    \/ QuietPass(t)

NextWatch == \E t \in TaskIds : WatchStep(t)

\* Every awaited call returns or raises, and the event loop resumes the coroutine.
SpecWatch == InitWatch /\ [][NextWatch]_vars /\ \A t \in TaskIds : WF_vars(WatchStep(t))

----------------------------------------------------------------------------
\* The nesting of the calls of RSIStrategy

RECURSIVE RSIStrategy_analyze_overflows(_, _, _)
RECURSIVE RSIStrategy_should_trade_overflows(_, _, _)

\* The calls cut by RecursionError under one call of RSIStrategy.analyze, with
\* `frames` nested calls of analyze still possible: on a window that is long
\* enough analyze calls should_buy and should_sell (lines 103-104).
RSIStrategy_analyze_overflows(self, data, frames) ==
    LET required_periods == Max3(self.parameters.rsi_period,
                                 self.parameters.trend_ema_period,
                                 self.parameters.divergence_lookback) + 10
    IN  IF data.bars < required_periods THEN 0
        ELSE RSIStrategy_should_trade_overflows(self, data, frames)
                + RSIStrategy_should_trade_overflows(self, data, frames)

\* The same under one call of should_buy or of should_sell, which call analyze
\* first of all (lines 291 and 318): a call the stack no longer allows raises.
RSIStrategy_should_trade_overflows(self, data, frames) ==
    IF frames = 0 THEN 1
    ELSE RSIStrategy_analyze_overflows(self, data, frames - 1)

\* The calls cut by RecursionError under the call of the strategy method `op`;
\* generate_signal calls analyze (line 345).
RSIStrategy_overflows(self, data, op) ==
    IF op \in {"should_buy", "should_sell"}
    THEN RSIStrategy_should_trade_overflows(self, data, RecursionLimit)
    ELSE RSIStrategy_analyze_overflows(self, data, RecursionLimit)

----------------------------------------------------------------------------
\* stop() called while the last iteration followed is suspended at an exchange call

\* A running loop whose iteration awaits get_ticker for the one signal the filter
\* kept; stop() has not been called.  The loop is followed to the end of this
\* iteration and, once the flag is cleared, to its exit.
InitStop ==
    /\ FoldIdle
    /\ flt = NoFilter
    /\ fn = NoCall
    /\ retry = NoRetry
    /\ active_symbols = OneSymbolSetup
    /\ is_running = TRUE
    /\ stop_pc = NotStopping
    /\ last_exec = NoExec
    /\ positions = <<>>
    /\ balances = update_balances(<<>>, "binance", 10000)
    /\ \E n \in 0..MaxPolled : active_orders = PolledOrders(n)
    /\ \E sd \in Sides :
          tasks = [t \in TaskIds |->
                      IF t = 1
                      THEN [NoTask EXCEPT !.pc = "ticker", !.passes = MaxPasses,
                                          !.filtered = <<Signal("BTC/USDT", sd, 80, 75)>>]
                      ELSE NoTask]

NextStop ==
    \/ \E t \in TaskIds : ExecuteSignal(t)
    \/ \E t \in TaskIds : CreateOrderReturns(t)
    \/ \E t \in TaskIds : PollBegin(t)
    \/ \E t \in TaskIds : PollOrderReturns(t)
    \/ \E t \in TaskIds : UpdatePortfolio(t)
    \/ \E t \in TaskIds : Sleep(t)
    \/ \E t \in TaskIds : LoopCheck(t)
    \/ StopBegin
    \/ CancelOrderReturns

\* The event loop resumes a coroutine whose awaited exchange call has ended, so
\* the iteration and a stop() under way go on to their ends; nothing obliges
\* the caller to call stop().
SpecStop ==
    /\ InitStop
    /\ [][NextStop]_vars
    /\ \A t \in TaskIds :
          /\ WF_vars(ExecuteSignal(t))
          /\ WF_vars(CreateOrderReturns(t))
          /\ WF_vars(PollBegin(t))
          /\ WF_vars(PollOrderReturns(t))
          /\ WF_vars(UpdatePortfolio(t))
          /\ WF_vars(Sleep(t))
          /\ WF_vars(LoopCheck(t))
    /\ WF_vars(CancelOrderReturns)

----------------------------------------------------------------------------
\* CircuitBreaker (utils/retry.py lines 19-82).  fn.self is the breaker, fn.arg
\* the clock and the calls suspended in the wrapped function, fn.result what the
\* last step saw and did.

\* CircuitBreaker.__init__ (lines 22-41).
CircuitBreaker(failure_threshold, reset_timeout) ==
    [name |-> "CircuitBreaker", failure_threshold |-> failure_threshold,
     reset_timeout |-> reset_timeout, failure_count |-> 0, last_failure_time |-> 0,
     state |-> "CLOSED"]

\* A variant of record_failure that opens one failure late.
record_failure_OpensLate(self, now) ==
    [self EXCEPT !.failure_count = @ + 1, !.last_failure_time = now,
                 !.state = IF self.failure_count + 1 > self.failure_threshold
                           THEN "OPEN" ELSE @]

\* record_failure (lines 66-76), time.time() being now.
record_failure(self, now) ==
    [self EXCEPT !.failure_count = @ + 1, !.last_failure_time = now,
                 !.state = IF self.failure_count + 1 >= self.failure_threshold
                           THEN "OPEN" ELSE @]

\* A variant of reset that keeps the count.
reset_KeepsCount(self) == [self EXCEPT !.state = "CLOSED"]

\* reset (lines 78-82).
reset(self) == [self EXCEPT !.failure_count = 0, !.state = "CLOSED"]

\* Lines 47-52 of the wrapper: an OPEN breaker past its timeout becomes HALF_OPEN,
\* an OPEN breaker within it raises RetryError; else the state is left alone.
wrapper_enter(self, now) ==
    IF self.state = "OPEN"
    THEN IF now - self.last_failure_time > self.reset_timeout
         THEN [raised |-> FALSE, self |-> [self EXCEPT !.state = "HALF_OPEN"]]
         ELSE [raised |-> TRUE, self |-> self]
    ELSE [raised |-> FALSE, self |-> self]

\* The last reading of time.time() the model follows.
MaxClock == 4
\* The most calls suspended in the wrapped function at one time.
MaxPending == 2
\* The most failures counted.
MaxFailures == 4

FailureThresholds == {1, 2, 3}
ResetTimeouts == {0, 1}

NoCallYet == [before |-> <<>>, invoked |-> FALSE, raised |-> ""]

\* A new breaker at time 0, nothing called yet; failures is the number of failures
\* recorded since the last reset (history).
InitBreaker ==
    /\ positions = <<>>
    /\ balances = <<>>
    /\ FoldIdle
    /\ EngineNew
    /\ flt = NoFilter
    /\ retry = NoRetry
    /\ active_symbols = OneSymbolSetup
    /\ \E threshold \in FailureThresholds, timeout \in ResetTimeouts :
          fn = [op |-> "none", self |-> CircuitBreaker(threshold, timeout),
                arg |-> [now |-> 0, pending |-> 0, failures |-> 0],
                result |-> NoCallYet]

\* time.time() moves on.
BreakerClockTicks ==
    /\ fn.self.name = "CircuitBreaker"
    /\ fn.arg.now < MaxClock
    /\ fn' = [fn EXCEPT !.op = "tick", !.arg.now = @ + 1,
                        !.result = [NoCallYet EXCEPT !.before = fn.self]]
    /\ UNCHANGED <<positions, balances, fold_vars, engine_vars, flt, retry, active_symbols>>

\* The wrapper is called (lines 47-55): RetryError, or the wrapped function is
\* called and awaited.
BreakerCall ==
    /\ fn.self.name = "CircuitBreaker"
    /\ fn.arg.pending < MaxPending
    /\ LET entered == wrapper_enter(fn.self, fn.arg.now) IN
       fn' = [fn EXCEPT !.op = "call", !.self = entered.self,
                        !.arg.pending = IF entered.raised THEN @ ELSE @ + 1,
                        !.result = [before |-> fn.self, invoked |-> ~entered.raised,
                                    raised |-> IF entered.raised THEN "RetryError" ELSE ""]]
    /\ UNCHANGED <<positions, balances, fold_vars, engine_vars, flt, retry, active_symbols>>

\* The wrapped function returns (lines 56-58).
BreakerFuncReturns ==
    /\ fn.self.name = "CircuitBreaker"
    /\ fn.arg.pending > 0
    /\ fn' = [fn EXCEPT !.op = "returned",
                        !.self = IF fn.self.state = "HALF_OPEN" THEN reset(fn.self) ELSE @,
                        !.arg.pending = @ - 1,
                        !.arg.failures = IF fn.self.state = "HALF_OPEN" THEN 0 ELSE @,
                        !.result = [NoCallYet EXCEPT !.before = fn.self, !.invoked = TRUE]]
    /\ UNCHANGED <<positions, balances, fold_vars, engine_vars, flt, retry, active_symbols>>

\* The wrapped function raises (lines 60-62): an exception of expected_exceptions
\* is recorded as a failure, any other goes through the wrapper untouched.
BreakerFuncRaises ==
    /\ fn.self.name = "CircuitBreaker"
    /\ fn.arg.pending > 0
    /\ \E expected \in BOOLEAN :
          /\ expected => fn.self.failure_count < MaxFailures
          /\ fn' = [fn EXCEPT !.op = IF expected THEN "failed" ELSE "raised_other",
                       !.self = IF expected THEN record_failure(fn.self, fn.arg.now) ELSE @,
                       !.arg.pending = @ - 1,
                       !.arg.failures = IF expected THEN @ + 1 ELSE @,
                       !.result = [before |-> fn.self, invoked |-> TRUE,
                                   raised |-> IF expected THEN "expected" ELSE "other"]]
    /\ UNCHANGED <<positions, balances, fold_vars, engine_vars, flt, retry, active_symbols>>

NextBreaker == BreakerClockTicks \/ BreakerCall \/ BreakerFuncReturns \/ BreakerFuncRaises

SpecBreaker == InitBreaker /\ [][NextBreaker]_vars

----------------------------------------------------------------------------
\* RateLimiter (utils/retry.py lines 233-267).  fn.self is the limiter, fn.arg
\* the clock and the coroutines inside acquire.  Time is counted in seconds and
\* rates are whole tokens per second, so that token counts stay whole.

\* RateLimiter.__init__ (lines 236-246), built at time 0.
RateLimiter(rate, capacity) ==
    [name |-> "RateLimiter", rate |-> rate, capacity |-> capacity, tokens |-> capacity,
     last_refill |-> 0]

\* _refill (lines 261-267), time.time() being now.
refill(self, now) ==
    [self EXCEPT !.tokens = Min(self.capacity, self.tokens + (now - self.last_refill) * self.rate),
                 !.last_refill = now]

\* The coroutines that call acquire.
MaxWaiters == 2
Waiters == 1..MaxWaiters

\* A coroutine outside acquire.
NotAcquiring == [pc |-> "idle", tokens |-> 0, since |-> 0, deficit |-> 0]

LimiterRates == {1, 2}
LimiterCapacities == {1, 2}

\* A new limiter with a full bucket at time 0.
InitLimiter ==
    /\ positions = <<>>
    /\ balances = <<>>
    /\ FoldIdle
    /\ EngineNew
    /\ flt = NoFilter
    /\ retry = NoRetry
    /\ active_symbols = OneSymbolSetup
    /\ \E rate \in LimiterRates, capacity \in LimiterCapacities :
          fn = [op |-> "none", self |-> RateLimiter(rate, capacity),
                arg |-> [now |-> 0, waiters |-> [w \in Waiters |-> NotAcquiring]],
                result |-> <<>>]

\* time.time() moves on.
LimiterClockTicks ==
    /\ fn.self.name = "RateLimiter"
    /\ fn.arg.now < MaxClock
    /\ fn' = [fn EXCEPT !.op = "tick", !.arg.now = @ + 1, !.result = <<>>]
    /\ UNCHANGED <<positions, balances, fold_vars, engine_vars, flt, retry, active_symbols>>

\* acquire(tokens) up to its return or its sleep (lines 250-257): the bucket is
\* refilled; with enough tokens they are taken, else the coroutine sleeps for
\* (tokens - self.tokens) / rate seconds.
Acquire(w) ==
    /\ fn.self.name = "RateLimiter"
    /\ fn.arg.waiters[w].pc = "idle"
    /\ \E tokens \in 1..fn.self.capacity :
          LET refilled == refill(fn.self, fn.arg.now) IN
          IF refilled.tokens >= tokens
          THEN fn' = [fn EXCEPT !.op = "acquired", !.result = w,
                                !.self = [refilled EXCEPT !.tokens = @ - tokens]]
          ELSE fn' = [fn EXCEPT !.op = "sleeping", !.result = w,
                                !.self = refilled,
                                !.arg.waiters[w] =
                                    [pc |-> "sleeping", tokens |-> tokens, since |-> fn.arg.now,
                                     deficit |-> tokens - refilled.tokens]]
    /\ UNCHANGED <<positions, balances, fold_vars, engine_vars, flt, retry, active_symbols>>

\* asyncio.sleep(wait_time) has returned, wait_time or more after it was called
\* (lines 258-259): the bucket is refilled and the tokens are taken.
AcquireWakes(w) ==
    /\ fn.self.name = "RateLimiter"
    /\ fn.arg.waiters[w].pc = "sleeping"
    /\ (fn.arg.now - fn.arg.waiters[w].since) * fn.self.rate >= fn.arg.waiters[w].deficit
    /\ LET refilled == refill(fn.self, fn.arg.now) IN
       fn' = [fn EXCEPT !.op = "acquired_after_sleep", !.result = w,
                        !.self = [refilled EXCEPT !.tokens = @ - fn.arg.waiters[w].tokens],
                        !.arg.waiters[w] = NotAcquiring]
    /\ UNCHANGED <<positions, balances, fold_vars, engine_vars, flt, retry, active_symbols>>

NextLimiter ==
    \/ LimiterClockTicks
    \/ \E w \in Waiters : Acquire(w)
    \/ \E w \in Waiters : AcquireWakes(w)

SpecLimiter == InitLimiter /\ [][NextLimiter]_vars

----------------------------------------------------------------------------
\* Claims about the fold of trades into positions (under SpecFold)

FoldedOntoPosition == hist.op = "fold" /\ hist.had

\* C1: folding a trade of the existing position's side keeps the side, adds the
\* trade amount to the size, and makes entry_price the notional-weighted average
\* (stated without the division: entry_price * new size = old notional + trade notional).
C1_SameSideFoldAverages ==
    (FoldedOntoPosition /\ hist.trade.side = hist.before.side) =>
        /\ hist.key \in DOMAIN positions
        /\ positions[hist.key].side = hist.before.side
        /\ positions[hist.key].size = hist.before.size + hist.trade.amount
        /\ positions[hist.key].entry_price * positions[hist.key].size =
               hist.before.size * hist.before.entry_price
               + hist.trade.amount * hist.trade.price

\* C2: folding an opposite-side trade strictly smaller than the position reduces the
\* size by the trade amount and keeps side and entry_price.
C2_PartialCloseReducesSize ==
    (FoldedOntoPosition /\ hist.trade.side # hist.before.side
        /\ hist.trade.amount < hist.before.size) =>
        /\ hist.key \in DOMAIN positions
        /\ positions[hist.key].size = hist.before.size - hist.trade.amount
        /\ positions[hist.key].side = hist.before.side
        /\ positions[hist.key].entry_price = hist.before.entry_price

\* C3: folding an opposite-side trade equal to the position size removes the
\* position: get_position for the pair is then not-found.
C3_FullCloseRemovesPosition ==
    (FoldedOntoPosition /\ hist.trade.side # hist.before.side
        /\ hist.trade.amount = hist.before.size) =>
        ~has_position(positions, hist.trade.symbol, hist.trade.exchange)

\* C4: folding an opposite-side trade larger than the position flips it: the
\* trade's side, size = trade amount - old size, entry_price = the trade's price.
C4_OversizedCloseFlipsPosition ==
    (FoldedOntoPosition /\ hist.trade.side # hist.before.side
        /\ hist.trade.amount > hist.before.size) =>
        /\ hist.key \in DOMAIN positions
        /\ positions[hist.key].side = hist.trade.side
        /\ positions[hist.key].size = hist.trade.amount - hist.before.size
        /\ positions[hist.key].entry_price = hist.trade.price

\* C5: after any sequence of folds, refreshes and update_position calls every
\* stored position has size > 0; no zero-size entry is retained.
C5_StoredPositionsHavePositiveSize ==
    \A k \in DOMAIN positions : positions[k].size > 0

\* C5's case: after a completed reconciliation cycle over a non-empty history,
\* update_position is handed size 0 for a held position, and the key is gone while
\* another position stays.
C5_Witness_ZeroSizeRemovedAfterCycle ==
    /\ hist.op = "update_position" /\ hist.zero /\ hist.had
    /\ hist.key \notin DOMAIN positions
    /\ DOMAIN positions # {}
    /\ folded # {}

----------------------------------------------------------------------------
\* Claims about the filter step (under SpecFilter)

Count(seq, v) == Cardinality({j \in 1..Len(seq) : seq[j] = v})

Eligible(signals, orders) ==
    SelectSeq(signals, LAMBDA s : \A id \in DOMAIN orders : orders[id].symbol # s.symbol)

Product(s) == s.strength * s.confidence

\* C7: the filter returns exactly the k eligible signals of highest
\* strength*confidence, in descending order of that product, where a signal is
\* eligible when no in-flight order has its symbol and
\* k = min(#eligible, max(0, max_concurrent_orders - #in-flight)).
C7_FilterKeepsTopKEligible ==
    flt.applied =>
        LET elig == Eligible(flt.signals, active_orders)
            n == Cardinality(DOMAIN active_orders)
            slots == IF max_concurrent_orders - n > 0 THEN max_concurrent_orders - n ELSE 0
            k == IF Len(elig) < slots THEN Len(elig) ELSE slots
            r == flt.result
        IN /\ Len(r) = k
           /\ \A v \in Range(r) : Count(r, v) <= Count(elig, v)
           /\ \A i \in 1..Len(r) : \A j \in i..Len(r) : Product(r[i]) >= Product(r[j])
           /\ \A v \in Range(elig) :
                 Count(r, v) < Count(elig, v) => \A j \in 1..Len(r) : Product(r[j]) >= Product(v)

\* C7's case: six eligible signals, none in flight: five are kept, the one left out
\* has a product strictly below a kept one, and the kept ones were not in order.
C7_Witness_SixSignalsFiveKept ==
    /\ flt.applied
    /\ active_orders = <<>>
    /\ Len(flt.signals) = 6
    /\ Len(flt.result) = max_concurrent_orders
    /\ Product(flt.signals[1]) < Product(flt.signals[2])
    /\ Cardinality({j \in 1..6 : Product(flt.signals[j]) < Product(flt.result[1])}) = 1
    /\ Product(flt.result[1]) = Product(flt.result[5])

----------------------------------------------------------------------------
\* Claims about the engine loop

\* C8: in every reachable state the number of in-flight orders is at most
\* max_concurrent_orders.
C8_InFlightWithinCap ==
    Cardinality(DOMAIN active_orders) <= max_concurrent_orders

\* C9: with a position held for the signal's symbol and exchange, _execute_signal
\* asks for an order only when the signal's side opposes the position's side and
\* its confidence is strictly above 0.7, and the order it asks for closes the
\* position; a same-direction signal, and an opposing one with confidence <= 0.7,
\* ask for nothing and leave the in-flight set as it was.
C9_CloseOnlyWhenOpposingAndConfident ==
    (last_exec.op = "execute" /\ last_exec.had) =>
        /\ last_exec.req # NoRequest =>
              /\ last_exec.signal.side # last_exec.position.side
              /\ last_exec.signal.confidence > CloseConfidence
              /\ last_exec.req.kind = "close"
        /\ (\/ last_exec.signal.side = last_exec.position.side
            \/ last_exec.signal.confidence <= CloseConfidence) =>
              /\ last_exec.req = NoRequest
              /\ \A t \in TaskIds : tasks[t].pc # "create"
              /\ Cardinality(DOMAIN active_orders) = last_exec.tracked

\* An opposing signal with confidence exactly 0.7 met a position, with a balance
\* that gives a positive size, and nothing was asked for.
C9_Witness_OpposingAtThreshold ==
    /\ last_exec.op = "execute"
    /\ last_exec.had
    /\ last_exec.free > 0
    /\ last_exec.last > 0
    /\ last_exec.signal.side # last_exec.position.side
    /\ last_exec.signal.confidence = CloseConfidence
    /\ last_exec.req = NoRequest

\* C10: for a signal whose symbol has no position and whose computed size is
\* positive, _execute_signal asks for one MARKET order with the signal's side and
\* the amount free * risk_percentage * strength / ticker.last (in whole units of
\* size); once create_order
\* has returned, the order's id is in the in-flight set, which has grown by
\* exactly that order.
C10_NewPositionPlacesOneMarketOrder ==
    /\ (/\ last_exec.op = "execute"
        /\ ~last_exec.had
        /\ last_exec.last > 0
        /\ last_exec.free * RiskPercentage * last_exec.signal.strength >= last_exec.last) =>
           /\ last_exec.req.kind = "open"
           /\ last_exec.req.type = MARKET
           /\ last_exec.req.symbol = last_exec.signal.symbol
           /\ last_exec.req.side = last_exec.signal.side
           /\ last_exec.req.amount * last_exec.last <=
                 last_exec.free * RiskPercentage * last_exec.signal.strength
           /\ (last_exec.req.amount + 1) * last_exec.last >
                 last_exec.free * RiskPercentage * last_exec.signal.strength
           /\ Cardinality(DOMAIN active_orders) = last_exec.tracked
    /\ (last_exec.op = "create" /\ last_exec.req.kind = "open") =>
           /\ last_exec.order_id \in DOMAIN active_orders
           /\ active_orders[last_exec.order_id].symbol = last_exec.req.symbol
           /\ active_orders[last_exec.order_id].side = last_exec.signal.side
           /\ active_orders[last_exec.order_id].amount = last_exec.req.amount
           /\ Cardinality(DOMAIN active_orders) = last_exec.tracked + 1

\* A BUY signal (strength 0.8, confidence 0.75) for a symbol without a position:
\* create_order returned and the order is tracked.
C10_Witness_BuyOrderTracked ==
    /\ last_exec.op = "create"
    /\ last_exec.req.kind = "open"
    /\ last_exec.req.amount > 0
    /\ last_exec.signal.side = BUY
    /\ last_exec.signal.strength = 80
    /\ last_exec.signal.confidence = 75
    /\ last_exec.order_id \in DOMAIN active_orders

\* The signal's quote asset has no balance record on the exchange it resolves to.
NoBalanceFor(signal) ==
    BalKey(resolve_exchange(signal.symbol), quote_asset(signal.symbol)) \notin DOMAIN balances

\* C11: when no balance record exists for the quote asset of the signal's symbol
\* on the resolved exchange, the computed size is 0 and _execute_signal skips the
\* signal: it asks for no order, no create_order is awaited, and the in-flight set
\* is as it was.
C11_NoBalanceSkipsSignal ==
    (last_exec.op = "execute" /\ NoBalanceFor(last_exec.signal)) =>
        /\ last_exec.free = 0
        /\ last_exec.req = NoRequest
        /\ \A t \in TaskIds : tasks[t].pc # "create"
        /\ Cardinality(DOMAIN active_orders) = last_exec.tracked

\* A confident BUY signal for a symbol without position and without balance, the
\* ticker returned: skipped.
C11_Witness_SkippedWithoutBalance ==
    /\ last_exec.op = "execute"
    /\ last_exec.last > 0
    /\ ~last_exec.had
    /\ NoBalanceFor(last_exec.signal)
    /\ last_exec.signal.side = BUY
    /\ last_exec.signal.confidence = 75
    /\ last_exec.req = NoRequest

\* A start() call is within a strategy-execution pass: between _generate_signals
\* (line 134) and the return of _process_signals (line 138).
InStrategyPass(t) ==
    tasks[t].pc \in {"generate", "ticker", "create"}

\* C14: at any time at most one start() call is within a strategy-execution pass.
C14_OnePassAtATime ==
    Cardinality({t \in TaskIds : InStrategyPass(t)}) <= 1

\* C18: a create_order that raises, for an opening or a closing order, leaves the
\* positions, the balances and the in-flight set as they were, and the pass goes on
\* with the filtered signals that remain: the next one is at its get_ticker.
C18_FailedOrderChangesNothing ==
    [][last_exec'.op = "create_failed" =>
          /\ positions' = positions
          /\ balances' = balances
          /\ active_orders' = active_orders
          /\ \A t \in TaskIds :
                tasks[t].pc = "create" =>
                    /\ tasks'[t].filtered = Tail(tasks[t].filtered)
                    /\ tasks'[t].pc = IF Tail(tasks[t].filtered) = <<>>
                                      THEN "orders" ELSE "ticker"]_vars

\* create_order raised for the order closing a held position, one order is in
\* flight, and the second signal of the pass is at its get_ticker.
C18_Witness_FailedCloseThenNextSignal ==
    /\ last_exec.op = "create_failed"
    /\ last_exec.req.kind = "close"
    /\ positions # <<>>
    /\ balances # <<>>
    /\ active_orders # <<>>
    /\ \E t \in TaskIds : tasks[t].pc = "ticker" /\ Len(tasks[t].filtered) = 1

----------------------------------------------------------------------------
\* Claims about signal generation (under SpecGen)

\* The signals collected for the symbol of pair p.
CollectedFor(p) ==
    {i \in 1..Len(last_exec.generated) : last_exec.generated[i].symbol = pairs[p].symbol}

\* The strategies that returned a signal for pair p.
SignalledFor(p) ==
    {k \in Slots : slot_pair_index(k) = p /\ last_exec.out[k] \in SignalShapes}

\* C17: _generate_signals collects, for every pair whose market data arrived, one
\* signal for each strategy that returned one, whatever was raised for other pairs
\* or by other strategies; a pair whose market data raised contributes nothing.
C17_GenerationErrorsSkipOnlyTheirOwn ==
    last_exec.op = "generated" =>
        \A p \in 1..Len(pairs) :
            Cardinality(CollectedFor(p)) =
                IF last_exec.market[p] = "data" THEN Cardinality(SignalledFor(p)) ELSE 0

\* Market data raised for the first pair, and for the second pair one strategy
\* raised and the next one's signal was collected.
C17_Witness_OtherPairStillCollected ==
    /\ last_exec.op = "generated"
    /\ last_exec.market = <<"raised", "data">>
    /\ last_exec.out[1] \in SignalShapes
    /\ last_exec.out[Len(strategies) + 1] = RaisedShape
    /\ last_exec.out[Len(strategies) + 2] \in SignalShapes
    /\ CollectedFor(1) = {}
    /\ CollectedFor(2) # {}

----------------------------------------------------------------------------
\* Claims about the portfolio-update cycle (under SpecCycle)

\* C19: when get_balance raised for one exchange in a cycle, the cycle still
\* reconciled the positions of every other exchange.
C19_OtherExchangesStillReconciled ==
    (last_exec.op = "portfolio" /\ last_exec.raised_for # "") =>
        \A y \in active_exchanges \ {last_exec.raised_for} : y \in last_exec.reconciled

----------------------------------------------------------------------------
\* Claims about the order poll (under SpecPoll)

\* C12: when _update_orders has ended, every order it polled whose refreshed status
\* was CLOSED or CANCELED is out of the in-flight set.
C12_CompletedOrdersRemoved ==
    last_exec.op = "polled" =>
        \A id \in last_exec.completed : id \notin DOMAIN active_orders

\* C16: when stop() has ended, cancel_order was attempted for every order that was
\* in flight when it was called, whether or not earlier attempts failed, and the
\* in-flight set is empty.
C16_StopCancelsEveryOrderAndClears ==
    last_exec.op = "stopped" =>
        /\ last_exec.attempted = last_exec.in_flight
        /\ active_orders = <<>>

----------------------------------------------------------------------------
\* Claims about the loop of one start() call (under SpecLoop)

InIteration(t) ==
    tasks[t].pc \in {"generate", "ticker", "create", "orders", "polling", "portfolio"}

\* C13: whatever is raised within an iteration, the loop reaches its sleep, the
\* sleep leads back to the test of the running flag, a set flag starts a further
\* iteration, and the coroutine ends nowhere but at that test, with the flag cleared.
C13_ErrorsNeverEndTheLoop ==
    /\ \A t \in TaskIds : InIteration(t) ~> (tasks[t].pc = "sleep")
    /\ \A t \in TaskIds : (tasks[t].pc = "sleep") ~> (tasks[t].pc = "loop")
    /\ [][\A t \in TaskIds :
            /\ (tasks[t].pc = "loop" /\ tasks'[t].pc # "loop" /\ is_running)
                  => tasks'[t].pc = "generate"
            /\ (tasks[t].pc # "done" /\ tasks'[t].pc = "done")
                  => \/ tasks[t].pc = "none"
                     \/ tasks[t].pc = "loop" /\ ~is_running]_vars

\* get_balance raised in _update_portfolio of the first iteration, the flag is set,
\* and the loop is at its sleep.
C13_Witness_SleepAfterError ==
    \E t \in TaskIds :
        /\ tasks[t].pc = "sleep"
        /\ is_running
        /\ last_exec.op = "portfolio"
        /\ last_exec.error = "get_balance"
        /\ tasks[t].passes < MaxPasses

\* The steps of stop() leave every loop coroutine where it is.
StopLeavesTheLoopAlone ==
    [][(is_running /\ ~is_running') \/ stop_pc' # stop_pc => tasks' = tasks]_vars

\* The coroutine returns only from the while test of line 132.
ExitOnlyAtTheBoundary ==
    [][\A t \in TaskIds : (tasks[t].pc \notin {"none", "done"} /\ tasks'[t].pc = "done")
          => (tasks[t].pc = "loop" /\ ~is_running)]_vars

\* With the flag cleared no further iteration starts, and the loop returns.
StoppedLoopExits ==
    /\ [][\A t \in TaskIds : ~is_running' => ~(tasks[t].pc = "loop" /\ tasks'[t].pc = "generate")]_vars
    /\ ~is_running ~> (\A t \in TaskIds : tasks[t].pc \in {"none", "done"})

\* The iteration that stop() finds in its order poll goes on to its portfolio update.
StoppedIterationCompletes ==
    [][\A t \in TaskIds :
          (~is_running /\ tasks[t].pc \in {"orders", "polling"}
                       /\ tasks'[t].pc \notin {"orders", "polling"})
              => tasks'[t].pc = "portfolio"]_vars

\* C15: stop() does nothing to the loop but clear its flag, the loop leaves only at
\* the while test, the iteration under way when stop() is called does all its
\* remaining steps, and with no later start() the loop returns without a new iteration.
C15_CooperativeStop ==
    /\ StopLeavesTheLoopAlone
    /\ ExitOnlyAtTheBoundary
    /\ StoppedIterationCompletes
    /\ StoppedLoopExits

----------------------------------------------------------------------------
\* Claims about exchange calls (under SpecExchangeCall)

\* The classes the claim names: authentication, invalid order, insufficient
\* balance, symbol not found.
FailFastErrors ==
    {"AuthenticationError", "InvalidOrderError", "InsufficientBalanceError",
     "SymbolNotFoundError"}

RecordsOfCall(n) == {i \in 1..Len(retry.records) : retry.records[i].call = n}

----------------------------------------------------------------------------
\* Claims about the retry wrapper (under SpecRetry)

RetryDone == retry.pc \in {"returned", "raised"}

\* C20: a call through the retry wrapper awaits the function at most max_attempts
\* times; a value returned by the function is returned at once, after failures
\* only; every sleep is between two attempts and at most max_delay long; when
\* every attempt raised a retryable error the wrapper made max_attempts attempts
\* and raises the error of the last one; and the call ends.
C20_RetryIsBounded ==
    /\ [](retry.calls <= retry.max_attempts)
    /\ []((retry.pc = "returned" /\ retry.calls > 0) =>
             /\ retry.outcomes[retry.calls] = "ok"
             /\ retry.result = retry.calls
             /\ \A i \in 1..(retry.calls - 1) : retry.outcomes[i] = "retryable")
    /\ [](\A i \in 1..Len(retry.slept) : retry.slept[i] <= retry.max_delay)
    /\ []((RetryDone /\ retry.calls > 0) => Len(retry.slept) = retry.calls - 1)
    /\ []((retry.pc = "raised" /\ \A i \in 1..retry.calls : retry.outcomes[i] = "retryable") =>
             /\ retry.calls = retry.max_attempts
             /\ retry.error = [kind |-> "retryable", call |-> retry.calls])
    /\ <>RetryDone

\* An exchange call (max_attempts 3) whose three attempts all raised a retryable
\* error: two sleeps, and the third error is raised.
C20_Witness_ThirdFailureRaised ==
    /\ retry.pc = "raised"
    /\ retry.max_attempts = ExchangeMaxAttempts
    /\ retry.max_delay = ExchangeRetry.max_delay
    /\ retry.jitter
    /\ retry.calls = 3
    /\ Len(retry.slept) = 2
    /\ retry.error = [kind |-> "retryable", call |-> 3]

----------------------------------------------------------------------------
\* Claims about the strategies (under SpecStrategy)

\* The bars a strategy requires: its longest indicator lookback plus 10.
RequiredBars(self) ==
    IF self.name = "EnhancedMAStrategy"
    THEN Max3(self.parameters.slow_ema, self.parameters.rsi_period,
              self.parameters.atr_period) + 10
    ELSE Max3(self.parameters.rsi_period, self.parameters.trend_ema_period,
              self.parameters.divergence_lookback) + 10

AnalyzeReports(self, data, key) ==
    LET analysis == analyze(self, data)
    IN  "error" \notin DOMAIN analysis /\ analysis[key]

\* C23: for both strategies and every window, should_buy(bars) is true exactly
\* when analyze(bars) is a result that reports buy_signal true, and should_sell
\* likewise; both are false whenever analyze reports insufficient data.
C23_EntryPointsAgree ==
    /\ fn.op = "should_buy" => (fn.result <=> AnalyzeReports(fn.self, fn.arg, "buy_signal"))
    /\ fn.op = "should_sell" => (fn.result <=> AnalyzeReports(fn.self, fn.arg, "sell_signal"))

\* C24: every Signal generate_signal returns has side BUY or SELL, strength and
\* confidence within [0, 1] and the name of the strategy that made it; the
\* scores of both rubrics stay within [0, 1].
C24_SignalsAreWellFormed ==
    /\ (fn.op = "generate_signal" /\ fn.result # None) =>
          /\ fn.result[1].side \in Sides
          /\ fn.result[1].strength \in 0..100
          /\ fn.result[1].confidence \in 0..100
          /\ fn.result[1].strategy = fn.self.name
    /\ (fn.op = "analyze" /\ "error" \notin DOMAIN fn.result) =>
          /\ fn.result.signal_strength \in 0..100
          /\ fn.self.name = "EnhancedMAStrategy" =>
                fn.result.bullish_score \in 0..100 /\ fn.result.bearish_score \in 0..100

\* The mean-reversion strategy returned a BUY whose four rubric items all count:
\* strength 1.0, and confidence capped at 1.0.
C24_Witness_FullStrengthBuy ==
    /\ fn.op = "generate_signal"
    /\ fn.self.name = "RSIStrategy"
    /\ fn.result # None
    /\ fn.result[1].side = BUY
    /\ fn.result[1].strength = 100
    /\ fn.result[1].confidence = 100

\* The primary signal and the scores of the window, where the indicators are computable.
PrimaryAnalysis(self, data) == analyze_signals(self, data, calculate_indicators(self, data))

\* Both gates of the trend strategy agree on `signal`: the primary signal is it,
\* and at least 60% of the seven conditions of its side hold.
BothGates(self, data, signal) ==
    LET indicators == calculate_indicators(self, data)
        signal_analysis == analyze_signals(self, data, indicators)
    IN  /\ ~indicators.raised
        /\ signal_analysis.signal = signal
        /\ IF signal = "bullish"
           THEN /\ signal_analysis.bullish_score > signal_analysis.bearish_score
                /\ signal_analysis.bullish_score > self.parameters.min_confidence
                /\ majority(buy_conditions(self, data, indicators, signal_analysis))
           ELSE /\ signal_analysis.bearish_score > signal_analysis.bullish_score
                /\ signal_analysis.bearish_score > self.parameters.min_confidence
                /\ majority(sell_conditions(self, data, indicators, signal_analysis))

\* C25: for every min_confidence in [0, 1], the trend strategy fires a BUY
\* (should_buy true, generate_signal returns a BUY) only when the primary signal
\* is bullish and at least 60% of the seven buy conditions hold, and a SELL only
\* when it is bearish and at least 60% of the seven sell conditions hold.
C25_TradesNeedBothGates ==
    fn.self.name = "EnhancedMAStrategy" =>
        /\ (fn.op = "should_buy" /\ fn.result) => BothGates(fn.self, fn.arg, "bullish")
        /\ (fn.op = "should_sell" /\ fn.result) => BothGates(fn.self, fn.arg, "bearish")
        /\ (fn.op = "generate_signal" /\ fn.result # None) =>
              BothGates(fn.self, fn.arg,
                        IF fn.result[1].side = BUY THEN "bullish" ELSE "bearish")

\* C26: in both strategies, when the 20-bar average volume is zero the volume
\* ratio that analyze reports is 1.0: the volume is not divided by zero.
C26_ZeroAverageVolumeGivesRatioOne ==
    (fn.op = "analyze" /\ "error" \notin DOMAIN fn.result /\ fn.arg.volume_sma = 0) =>
        fn.result.volume_ratio = Num(100)

----------------------------------------------------------------------------
\* Claims about the risk functions (under SpecRisk)

\* The free balance of the order's quote asset on its exchange, if recorded.
HasQuoteBalance(order) == BalKey(order.exchange, "USDT") \in DOMAIN balances
QuoteBalance(order) == balances[BalKey(order.exchange, "USDT")]

\* C27: check_risk_limits(order) is true exactly when a balance record exists for
\* the order's quote asset on the order's exchange and amount * price is at most
\* its free amount (true at exactly the free amount); without a record it
\* returns false.
C27_RiskCheckIsTheBalanceTest ==
    fn.op = "check_risk_limits" =>
        /\ fn.result \in BOOLEAN
        /\ ~HasQuoteBalance(fn.arg.order) => fn.result = FALSE
        /\ HasQuoteBalance(fn.arg.order) =>
              (fn.result <=>
                  fn.arg.order.amount * fn.arg.order.price
                      <= QuoteBalance(fn.arg.order) * 10000)

\* An order of 0.1 at 50000 against a free balance of exactly 5000 was accepted.
C27_Witness_AcceptedAtExactlyFree ==
    /\ fn.op = "check_risk_limits"
    /\ fn.arg.order.amount = 1000
    /\ fn.arg.order.price = 50000
    /\ HasQuoteBalance(fn.arg.order)
    /\ QuoteBalance(fn.arg.order) = 5000
    /\ fn.result = TRUE

\* C28: for every entry price > 0 the default stop-loss and the take-profit lie
\* on opposite sides of the entry: for a long stop = entry * 0.98 < entry <
\* entry + entry * 0.02 * risk_reward_ratio = take-profit, for a short
\* take-profit < entry < entry * 1.02 = stop.
C28_StopAndTargetStraddleEntry ==
    LET entry == fn.arg.entry_price * 1000
        distance == fn.arg.entry_price * 2 * fn.arg.risk_reward_ratio
    IN  /\ fn.op = "calculate_stop_loss" =>
              IF fn.arg.order.side = BUY
              THEN fn.result = fn.arg.entry_price * 980 /\ fn.result < entry
              ELSE fn.result = fn.arg.entry_price * 1020 /\ fn.result > entry
        /\ fn.op = "calculate_take_profit" =>
              IF fn.arg.order.side = BUY
              THEN /\ fn.result = entry + distance
                   /\ calculate_stop_loss(fn.arg.entry_price, BUY) < entry
                   /\ entry < fn.result
              ELSE /\ fn.result = entry - distance
                   /\ fn.result < entry
                   /\ entry < calculate_stop_loss(fn.arg.entry_price, SELL)

\* The stop of a short entered at 50000 is 51000.
C28_Witness_ShortStopAbove ==
    /\ fn.op = "calculate_stop_loss"
    /\ fn.arg.order.side = SELL
    /\ fn.arg.entry_price = 50000
    /\ fn.result = 51000 * 1000

----------------------------------------------------------------------------
\* Claims about the refresh of market values (under SpecFold)

\* The symbols whose ticker a refresh of these positions fetches.
FetchedSymbols(pos) == {key[2] : key \in DOMAIN pos}

----------------------------------------------------------------------------
\* Claims about the routing of orders (under SpecRoute)

\* The exchanges in the order in which the add_strategy calls name them.
RECURSIVE Mentions(_)
Mentions(calls) ==
    IF calls = <<>> THEN <<>> ELSE Head(calls).exchanges \o Mentions(Tail(calls))

\* Some add_strategy call gave the symbol to the exchange.
GivenTo(calls, exchange, symbol) ==
    \E j \in 1..Len(calls) :
        exchange \in Range(calls[j].exchanges) /\ symbol \in Range(calls[j].symbols)

\* The exchange named first by the calls among those that were given the symbol.
FirstGiven(calls, symbol) ==
    LET m == Mentions(calls)
        hits == {j \in 1..Len(m) : GivenTo(calls, m[j], symbol)}
    IN  m[CHOOSE j \in hits : \A k \in hits : j <= k]

\* C30: every order the engine places for a signal goes to the first exchange,
\* in insertion order of the active-symbol map, whose list contains the
\* signal's symbol; that exchange is determined by the sequence of add_strategy
\* calls.
C30_OrdersGoToTheFirstListingExchange ==
    (last_exec.op \in {"execute", "create", "create_failed"} /\ last_exec.req # NoRequest) =>
        /\ last_exec.req.symbol = last_exec.signal.symbol
        /\ last_exec.req.exchange = FirstGiven(fn.arg, last_exec.signal.symbol)
        /\ \A j \in 1..Len(active_symbols) :
              (last_exec.signal.symbol \in Range(active_symbols[j].symbols)
                  /\ active_symbols[j].exchange # last_exec.req.exchange) =>
                 \E k \in 1..(j - 1) : active_symbols[k].exchange = last_exec.req.exchange
        /\ last_exec.op = "create" =>
              active_orders[last_exec.order_id].exchange = last_exec.req.exchange

\* Both exchanges list BTC/USDT and upbit was inserted first: the order created
\* for a BTC/USDT signal is upbit's.
C30_Witness_SecondListingPassedOver ==
    /\ last_exec.op = "create"
    /\ last_exec.signal.symbol = "BTC/USDT"
    /\ Len(active_symbols) = 2
    /\ active_symbols[1].exchange = "upbit"
    /\ \A j \in 1..2 : "BTC/USDT" \in Range(active_symbols[j].symbols)
    /\ last_exec.req.exchange = "upbit"
    /\ active_orders[last_exec.order_id].exchange = "upbit"

----------------------------------------------------------------------------
\* Claims about the symbol converter (under SpecConvert)

\* The drawn symbol is BASE/QUOTE with both parts non-empty, free of separators,
\* and QUOTE, upper-cased, among the exchange's known quote currencies.
StandardSymbolOfExchange ==
    LET parts == str_split(fn.arg.symbol, "/") IN
    /\ Len(parts) = 2
    /\ parts[1] # <<>>
    /\ \A j \in 1..Len(fn.arg.symbol) : fn.arg.symbol[j] # "-"
    /\ str_upper(parts[2]) \in Range(quote_currencies(fn.arg.exchange))

\* C31: for every standard symbol BASE/QUOTE with non-empty BASE and QUOTE among
\* the exchange's known quote currencies, converting to the exchange's format and
\* back gives the upper-cased symbol, on Binance and on Upbit.
C31_ConversionRoundTrips ==
    (fn.op = "to_standard_format" /\ StandardSymbolOfExchange)
        => fn.result = str_upper(fn.arg.symbol)

\* A lower-case symbol whose base ends like a known quote (bT/usdt, Binance) has
\* come back as BT/USDT.
C31_Witness_LowerCaseBinance ==
    /\ fn.op = "to_standard_format"
    /\ fn.arg.exchange = "binance"
    /\ fn.arg.symbol = <<"b", "T", "/", "u", "s", "d", "t">>
    /\ fn.result = <<"B", "T", "/", "U", "S", "D", "T">>

----------------------------------------------------------------------------
\* Claims about the in-flight orders of the engine (under Spec)

\* C32: in every reachable state of the engine no two in-flight orders are for the
\* same symbol, also when several strategies signal the same symbol in one pass.
C32_OneInFlightOrderPerSymbol ==
    \A a, b \in DOMAIN active_orders :
        active_orders[a].symbol = active_orders[b].symbol => a = b

----------------------------------------------------------------------------
\* Claims about the watch over in-flight orders (under SpecWatch)

\* C33: every in-flight order whose status on the exchange has become terminal
\* (CLOSED, CANCELED or REJECTED) is eventually removed from the in-flight set by a
\* later poll, so that it stops blocking its symbol and stops taking a slot.
C33_TerminalOrdersAreEventuallyRemoved ==
    \A id \in 1..MaxPolled :
        (id \in DOMAIN active_orders /\ active_orders[id].status \in TerminalStatuses)
            ~> (id \notin DOMAIN active_orders)

----------------------------------------------------------------------------
\* Claims about the calls between the methods of RSIStrategy (under SpecStrategy)

\* C34: on every window with at least required_periods bars, analyze, should_buy,
\* should_sell and generate_signal of RSIStrategy return after a bounded chain of
\* calls between analyze and should_buy/should_sell (no call is cut by the
\* interpreter's stack limit), and analyze returns a result that holds the rsi value.
C34_RSICallsAreBounded ==
    (/\ fn.op # "none"
     /\ fn.self.name = "RSIStrategy"
     /\ fn.arg.bars >= RequiredBars(fn.self)) =>
        /\ RSIStrategy_overflows(fn.self, fn.arg, fn.op) = 0
        /\ fn.op = "analyze" =>
              /\ "rsi" \in DOMAIN fn.result
              /\ fn.result.rsi = fn.arg.rsi

----------------------------------------------------------------------------
\* Claims about opposite answers of one strategy (under SpecStrategy)

\* C35: for each strategy and every window, should_buy and should_sell are never
\* both true, so that the BUY generate_signal prefers never hides a SELL.
C35_BuyAndSellNeverBothTrue ==
    /\ (fn.op = "should_buy" /\ fn.result = TRUE) => ~should_sell(fn.self, fn.arg)
    /\ (fn.op = "should_sell" /\ fn.result = TRUE) => ~should_buy(fn.self, fn.arg)
    /\ (fn.op = "generate_signal" /\ fn.result # None) =>
          ~(should_buy(fn.self, fn.arg) /\ should_sell(fn.self, fn.arg))

----------------------------------------------------------------------------
\* Claims about stop() against a suspended iteration (under SpecStop)

\* stop() has just returned: _cancel_all_orders reached its clear() (line 561).
StopReturned == last_exec.op = "stopped" /\ last_exec.error = ""

\* The trading loop has left its while (line 132).
LoopExited == \A t \in TaskIds : tasks[t].pc \in {"none", "done"}

\* C36: once stop() has returned and the loop has exited, the in-flight set is
\* empty, and from the return of stop() on no create_order call is made, however
\* stop() interleaves with an iteration suspended at an exchange call.
C36_NothingInFlightAfterStop ==
    [](StopReturned =>
          [](/\ LoopExited => active_orders = <<>>
             /\ last_exec.op = "execute" => last_exec.req = NoRequest))

----------------------------------------------------------------------------
\* Claims about the circuit breaker (under SpecBreaker)

\* The time since the last failure, when the last step was taken.
SinceLastFailure == fn.arg.now - fn.result.before.last_failure_time

\* C37: a call on an OPEN breaker before reset_timeout has elapsed since the last
\* failure raises RetryError, without calling the wrapped function and without
\* changing the breaker; a call after the timeout makes the breaker HALF_OPEN and
\* calls the function; in HALF_OPEN a success resets the breaker to CLOSED with
\* failure_count 0 and a failure returns it to OPEN.
C37_OpenRejectsAndHalfOpenProbes ==
    /\ (/\ fn.op = "call"
        /\ fn.result.before.state = "OPEN"
        /\ SinceLastFailure < fn.result.before.reset_timeout) =>
           /\ fn.result.raised = "RetryError"
           /\ ~fn.result.invoked
           /\ fn.self = fn.result.before
    /\ (/\ fn.op = "call"
        /\ fn.result.before.state = "OPEN"
        /\ SinceLastFailure > fn.result.before.reset_timeout) =>
           /\ fn.result.invoked
           /\ fn.self.state = "HALF_OPEN"
    /\ (fn.op = "returned" /\ fn.result.before.state = "HALF_OPEN") =>
           /\ fn.self.state = "CLOSED"
           /\ fn.self.failure_count = 0
    /\ (fn.op = "failed" /\ fn.result.before.state = "HALF_OPEN") =>
           fn.self.state = "OPEN"

\* A breaker with threshold 2 opened, was probed after its timeout, and the
\* probe's success has closed it again.
C37_Witness_ProbeSucceeded ==
    /\ fn.op = "returned"
    /\ fn.self.failure_threshold = 2
    /\ fn.result.before.state = "HALF_OPEN"
    /\ fn.result.before.failure_count = 2
    /\ fn.self.state = "CLOSED"

\* C38: with failure_threshold >= 1, a CLOSED breaker has failure_count below the
\* threshold; a failure on a CLOSED breaker opens it exactly when the failures
\* recorded since the last reset reach the threshold; and a success on a CLOSED
\* breaker leaves the count as it is.
C38_ClosedMeansBelowThreshold ==
    /\ fn.self.state = "CLOSED" => fn.self.failure_count < fn.self.failure_threshold
    /\ fn.self.failure_count = fn.arg.failures
    /\ (fn.op = "failed" /\ fn.result.before.state = "CLOSED") =>
           (fn.self.state = "OPEN" <=> fn.arg.failures = fn.self.failure_threshold)
    /\ (fn.op = "returned" /\ fn.result.before.state = "CLOSED") =>
           /\ fn.self.state = "CLOSED"
           /\ fn.self.failure_count = fn.result.before.failure_count

\* A breaker with threshold 3 has counted two failures, then a success, and is
\* still CLOSED with count 2.
C38_Witness_SuccessKeepsCount ==
    /\ fn.op = "returned"
    /\ fn.self.failure_threshold = 3
    /\ fn.result.before.state = "CLOSED"
    /\ fn.self.state = "CLOSED"
    /\ fn.self.failure_count = 2

----------------------------------------------------------------------------
\* Claims about the rate limiter (under SpecLimiter)

\* C39: in every reachable state of a RateLimiter the bucket holds at least 0 and
\* at most capacity tokens, for every sequence of acquire(n) calls with
\* n <= capacity, several coroutines waiting in acquire at once included.
C39_TokensStayWithinTheBucket ==
    /\ 0 <= fn.self.tokens
    /\ fn.self.tokens <= fn.self.capacity

====
